---------------------------- MODULE Spec2Model ----------------------------
(***************************************************************************)
(* A model of the recursivecode tokenizer library: the BPE tokenizer, the  *)
(* LZ dictionary coder and its trie, the hierarchical LZ coder, the        *)
(* contextual encoder and the composed (pipeline) tokenizer.               *)
(*                                                                         *)
(* Each object of the library is a record held in one variable; `kind`     *)
(* says which object a behaviour is about, and `call` records the last     *)
(* call made on it (its arguments, its output and how it ended).           *)
(***************************************************************************)
EXTENDS Integers, Sequences, FiniteSets, TLC

VARIABLES
    kind,   \* which object this behaviour exercises
    trie,   \* lz::Trie: its nodes by the path from the root, each with value and is_end
    bpe,    \* bpe::BPE: merges, token_values, input_vocab, output_vocab, max_output_vocab, max_merges
    lrn,    \* BPE::learn's locals while it runs: pc, tokens, working_tokens, next_token
    lz,     \* lz::LZCoder: vocab_size, input_vocab, unused_tokens, encoded_vocab, token_map
    hlz,    \* lz::HierarchicalLZCoder: vocab_size, coders (context -> LZCoder)
    ce,     \* bpe::ContextualEncoder: context_map, input_vocab, output_vocab
    pipe,   \* bpe::ComposedTokenizer: tokenizers, and ComposedTokenizer::learn's locals
    hist,   \* what has been called on the coder since its construction
    call    \* the last call: op, tokens, learn, ctx, out, prefix, status

vars == <<kind, trie, bpe, lrn, lz, hlz, ce, pipe, hist, call>>

-----------------------------------------------------------------------------
(* Bounds of the model                                                      *)

MaxLen == 6          \* longest BPE training sequence
MaxOutputVocab == 5  \* largest max_output_vocab a BPE is constructed with
MaxMerges == 1       \* largest max_merges a BPE is constructed with
MaxRelearnLen == 3   \* longest training sequence of a BPE that learns repeatedly
MaxLearnCalls == 2   \* most learn calls on one BPE
MaxVocabSize == 3    \* largest output_vocab_size an LZ coder is constructed with
MaxSeqLen == 3       \* longest sequence handed to an LZ coder
MaxHSeqLen == 2      \* longest sequence handed to a hierarchical LZ coder
MaxCELen == 4        \* longest training sequence of a contextual encoder (but for scenario 4)
MaxCEInput == 3      \* longest sequence handed to a contextual encoder's encode
MaxStages == 2       \* most stages of a pipeline
MaxPipeLen == 3      \* longest training sequence of a pipeline
PipeMaxOutputVocab == 4  \* max_output_vocab of a pipeline's BPE stages
MaxCEVocabLen == 3   \* longest training sequence of a contextual encoder given a vocabulary
MaxTrieKeyLen == 2   \* longest key inserted into a trie on its own
MaxTrieKeys == 3     \* most keys of a trie on its own
MaxStatsLen == 4     \* longest sequence handed to get_stats on its own
MaxMergeLen == 4     \* longest sequence handed to merge_pairs on its own
MaxBPEVocabLen == 4  \* longest training sequence of a BPE whose symbols include 0
MaxBPEInput == 3     \* longest sequence a learned BPE is asked to encode besides the training sequence
MaxPipeInput == 1    \* longest sequence handed to a pipeline's encode or decode besides the training sequence

\* output_vocab_size of the hierarchical LZ coders: a coder of size n holds
\* n + 1 dictionaries (one per context), each of up to n entries
HLZVocabSizes == 1..2

\* BPE training symbols: enough for the contiguous vocabularies {1}, {1,2},
\* {1,2,3} and for vocabularies with a gap ({2}, {3}, {1,3}, {2,3})
BPESymbols == 1..3

-----------------------------------------------------------------------------
(* Generic helpers: std::optional, std::unordered_map, vectors              *)

\* std::optional<T>: nullopt is the empty set, a held value v is {v}
nullopt == {}

Some(v) == {v}

has_value(o) == o # {}

value(o) == CHOOSE v \in o : TRUE

\* m[k] = v on a std::map / std::unordered_map
Put(m, k, v) == [x \in (DOMAIN m) \cup {k} |-> IF x = k THEN v ELSE m[x]]

EmptyMap == [x \in {} |-> 0]

\* m[k] read through operator[]: a missing key is inserted with a default value
Touch(m, k, default) == IF k \in DOMAIN m THEN m ELSE Put(m, k, default)

SetOfSeq(s) == {s[i] : i \in 1..Len(s)}

SeqsUpTo(S, n) == UNION {[1..k -> S] : k \in 0..n}

SetMax(S) == CHOOSE x \in S : \A y \in S : y <= x

SetMin(S) == CHOOSE x \in S : \A y \in S : x <= y

\* every order in which an unordered container may iterate over the set S
Orders(S) == {f \in [1..Cardinality(S) -> S] : \A i, j \in 1..Cardinality(S) : f[i] = f[j] => i = j}

RECURSIVE Concat(_)
Concat(ss) == IF ss = <<>> THEN <<>> ELSE Head(ss) \o Concat(Tail(ss))

-----------------------------------------------------------------------------
(* bpe.cpp: primitives                                                      *)

\* is_prefix(sequence, prefix)
is_prefix(sequence, prefix) ==
    /\ Len(prefix) <= Len(sequence)
    /\ \A i \in 1..Len(prefix) : sequence[i] = prefix[i]

\* get_stats(tokens) for a non-empty sequence: the loop runs i = 0 .. size-2
get_stats(tokens) ==
    LET pairs == {<<tokens[i], tokens[i + 1]>> : i \in 1..(Len(tokens) - 1)}
    IN  [p \in pairs |-> Cardinality({i \in 1..(Len(tokens) - 1) : <<tokens[i], tokens[i + 1]>> = p})]

\* get_stats(tokens) as a call: what it may return.  On the empty sequence
\* tokens.size() - 1 wraps around to the largest size_t, so the loop runs and
\* reads tokens[0] and tokens[1] outside the sequence: the behaviour is
\* undefined (status "out_of_bounds"), the call may stop there or count
\* whatever pair it read.
get_stats_outcomes(tokens, symbols) ==
    IF Len(tokens) = 0
    THEN {[out |-> read, status |-> "out_of_bounds"] :
             read \in {EmptyMap} \cup {[p \in {<<a, b>>} |-> 1] : a \in symbols, b \in symbols}}
    ELSE {[out |-> get_stats(tokens), status |-> "ok"]}

\* merge_pairs that goes on at the next symbol after a replacement
RECURSIVE merge_from_no_skip(_, _, _, _)
merge_from_no_skip(tokens, pair, new_token, i) ==
    IF i > Len(tokens) THEN <<>>
    ELSE IF i < Len(tokens) /\ tokens[i] = pair[1] /\ tokens[i + 1] = pair[2]
         THEN <<new_token>> \o merge_from_no_skip(tokens, pair, new_token, i + 1)
         ELSE <<tokens[i]>> \o merge_from_no_skip(tokens, pair, new_token, i + 1)

\* merge_pairs(tokens, pair, new_token), the scan from (1-based) position i
RECURSIVE merge_from(_, _, _, _)
merge_from(tokens, pair, new_token, i) ==
    IF i > Len(tokens) THEN <<>>
    ELSE IF i < Len(tokens) /\ tokens[i] = pair[1] /\ tokens[i + 1] = pair[2]
         THEN <<new_token>> \o merge_from(tokens, pair, new_token, i + 2)
         ELSE <<tokens[i]>> \o merge_from(tokens, pair, new_token, i + 1)

merge_pairs(tokens, pair, new_token) == merge_from(tokens, pair, new_token, 1)

-----------------------------------------------------------------------------
(* bpe.cpp: BPE                                                             *)

\* BPE::BPE(max_output_vocab, max_merges); the constructor throws when both are nullopt
BPE_new(max_output_vocab, max_merges) ==
    [merges |-> <<>>, token_values |-> EmptyMap, input_vocab |-> {}, output_vocab |-> {},
     max_output_vocab |-> max_output_vocab, max_merges |-> max_merges]

\* BPE::learn up to the merge loop: the vocabulary is fixed in the iteration
\* order vocab_list, the state is cleared and seeded, the working sequence is
\* the input mapped through inverse_token_values (a token outside the
\* vocabulary reads the map's default, 0)
learn_begin(b, tokens, input_vocab, vocab_list) ==
    LET vocab == IF has_value(input_vocab) THEN value(input_vocab) ELSE SetOfSeq(tokens)
        merges0 == [i \in 1..Len(vocab_list) |-> <<0, vocab_list[i]>>]
        tv0 == [t \in vocab |-> <<t>>]
        mov == IF ~has_value(b.max_output_vocab) /\ has_value(b.max_merges)
               THEN Some(value(b.max_merges) + Len(merges0))
               ELSE b.max_output_vocab
        working == [i \in 1..Len(tokens) |-> IF tokens[i] \in vocab THEN tokens[i] ELSE 0]
    IN  [b |-> [merges |-> merges0, token_values |-> tv0, input_vocab |-> vocab,
                output_vocab |-> {}, max_output_vocab |-> mov, max_merges |-> b.max_merges],
         working_tokens |-> working,
         next_token |-> IF Len(working) < 2 THEN 0 ELSE SetMax(vocab) + 1]

\* the pairs the loop may pick in this iteration: none when the loop ends
\* (size bound reached, no pair, or the most frequent pair occurs once);
\* std::max_element over the unordered stats map returns one of the most
\* frequent pairs, which one depends on the map's iteration order
merge_candidates(b, working_tokens) ==
    IF Len(working_tokens) < 2 \/ ~(Len(b.merges) < value(b.max_output_vocab)) THEN {}
    ELSE LET stats == get_stats(working_tokens)
             best == SetMax({stats[p] : p \in DOMAIN stats})
         IN  IF best = 1 THEN {} ELSE {p \in DOMAIN stats : stats[p] = best}

\* the merge loop's iteration storing the merge under the id before its own
merge_step_previous_id(b, working_tokens, next_token, pair) ==
    LET merges1 == Append(b.merges, pair)
        tv1 == Touch(Touch(b.token_values, pair[1], <<>>), pair[2], <<>>)
        new_token_value == tv1[pair[1]] \o tv1[pair[2]]
        merge_token_id == Len(b.merges)
    IN  [b |-> [b EXCEPT !.merges = merges1,
                         !.token_values = Put(tv1, merge_token_id, new_token_value)],
         working_tokens |-> merge_pairs(working_tokens, pair, next_token),
         next_token |-> next_token + 1]

\* one iteration of the merge loop with the chosen pair
merge_step(b, working_tokens, next_token, pair) ==
    LET merges1 == Append(b.merges, pair)
        tv1 == Touch(Touch(b.token_values, pair[1], <<>>), pair[2], <<>>)
        new_token_value == tv1[pair[1]] \o tv1[pair[2]]
        merge_token_id == Len(merges1)
    IN  [b |-> [b EXCEPT !.merges = merges1,
                         !.token_values = Put(tv1, merge_token_id, new_token_value)],
         working_tokens |-> merge_pairs(working_tokens, pair, next_token),
         next_token |-> next_token + 1]

\* the end of BPE::learn: output_vocab_ = {1..|merges|}
learn_end(b) == [b EXCEPT !.output_vocab = 1..Len(b.merges)]

\* BPE::encode: replays the merges, skipping entries whose first component is 0
RECURSIVE encode_from(_, _, _)
encode_from(b, encoded, i) ==
    IF i > Len(b.merges) THEN encoded
    ELSE IF b.merges[i][1] = 0 THEN encode_from(b, encoded, i + 1)
         ELSE encode_from(b, merge_pairs(encoded, b.merges[i], i), i + 1)

BPE_encode(b, tokens) == encode_from(b, tokens, 1)

\* BPE::decode: expands known ids, passes unknown ids through
BPE_decode(b, tokens) ==
    Concat([i \in 1..Len(tokens) |->
              IF tokens[i] \in DOMAIN b.token_values THEN b.token_values[tokens[i]]
              ELSE <<tokens[i]>>])

-----------------------------------------------------------------------------
(* lz.hpp / lz.cpp: Trie.  A trie is the map from the path of each of its   *)
(* nodes (the root is the empty path) to the node's value and is_end flag.  *)

EMPTY_TOKEN == -1

FreshNode == [value |-> EMPTY_TOKEN, is_end |-> FALSE]

Prefixes(key) == {SubSeq(key, 1, k) : k \in 0..Len(key)}

\* Trie::Trie(): a root node
Trie_new == [p \in {<<>>} |-> FreshNode]

\* Trie::insert(key, value): creates the missing nodes along key, then marks
\* the last one terminal with the value (overwriting any earlier value)
Trie_insert(t, key, val) ==
    [p \in (DOMAIN t) \cup Prefixes(key) |->
        IF p = key THEN [value |-> val, is_end |-> TRUE]
        ELSE IF p \in DOMAIN t THEN t[p] ELSE FreshNode]

\* Trie::get(key): found is FALSE where the code throws "key not found"
Trie_get(t, key) ==
    IF key \in DOMAIN t /\ t[key].is_end
    THEN [found |-> TRUE, value |-> t[key].value]
    ELSE [found |-> FALSE, value |-> EMPTY_TOKEN]

\* Trie::contains(key)
Trie_contains(t, key) == Trie_get(t, key).found

\* Trie::longest_prefix(sequence): the walk after k symbols, carrying the
\* value of the last terminal node entered
RECURSIVE longest_prefix_from(_, _, _, _)
longest_prefix_from(t, sequence, k, val) ==
    IF k = Len(sequence) \/ SubSeq(sequence, 1, k + 1) \notin DOMAIN t
    THEN [prefix |-> SubSeq(sequence, 1, k), token |-> val]
    ELSE LET node == t[SubSeq(sequence, 1, k + 1)]
         IN  longest_prefix_from(t, sequence, k + 1, IF node.is_end THEN node.value ELSE val)

Trie_longest_prefix(t, sequence) == longest_prefix_from(t, sequence, 0, EMPTY_TOKEN)

\* Trie::size(): the number of terminal nodes
Trie_size(t) == Cardinality({p \in DOMAIN t : t[p].is_end})

-----------------------------------------------------------------------------
(* lz.cpp: LZCoder.  unused_tokens and input_vocab are std::set (ascending   *)
(* iteration), encoded_vocab is a std::map.                                 *)

\* LZCoder::_add_new_token that leaves the assigned id in unused_tokens
add_new_token_keeps_unused(c, prefix, token) ==
    [c EXCEPT !.encoded_vocab = Put(@, token, prefix),
              !.token_map = Trie_insert(@, prefix, token)]

\* LZCoder::_add_new_token(prefix, token)
add_new_token(c, prefix, token) ==
    [c EXCEPT !.encoded_vocab = Put(@, token, prefix),
              !.token_map = Trie_insert(@, prefix, token),
              !.unused_tokens = @ \ {token}]

\* the constructor's loop over input_vocab, in ascending order
RECURSIVE add_input_vocab(_, _)
add_input_vocab(c, todo) ==
    IF todo = {} THEN c
    ELSE LET ch == SetMin(todo)
         IN  add_input_vocab(add_new_token(c, <<ch>>, SetMin(c.unused_tokens)), todo \ {ch})

\* whether LZCoder::LZCoder(output_vocab_size, input_vocab) returns rather
\* than throws "len(self.input_vocab) <= output_vocab_size"
LZCoder_constructible(output_vocab_size, input_vocab) ==
    output_vocab_size > 0 => Cardinality(input_vocab) <= output_vocab_size

\* LZCoder::LZCoder(output_vocab_size, input_vocab)
LZCoder_new(output_vocab_size, input_vocab) ==
    LET c0 == [vocab_size |-> -1,
               input_vocab |-> input_vocab,
               unused_tokens |-> {},
               encoded_vocab |-> [t \in {EMPTY_TOKEN} |-> <<>>],
               token_map |-> Trie_insert(Trie_new, <<>>, EMPTY_TOKEN)]
    IN  IF output_vocab_size > 0
        THEN [add_input_vocab([c0 EXCEPT !.unused_tokens = 0..(output_vocab_size - 1)], input_vocab)
                EXCEPT !.vocab_size = output_vocab_size + 1]
        ELSE c0

\* LZCoder::update_vocab(to_encode) from position i on.  Both of its throws
\* ("no unused tokens available", "output vocab size is smaller than input
\* vocab size!") end the call with VocabFull; what was registered before the
\* throw stays registered.
RECURSIVE update_vocab_from(_, _, _)
update_vocab_from(c, to_encode, i) ==
    IF i > Len(to_encode) THEN [coder |-> c, status |-> "ok"]
    ELSE LET ch == to_encode[i]
         IN  IF ch \in c.input_vocab THEN update_vocab_from(c, to_encode, i + 1)
             ELSE IF c.unused_tokens = {} THEN [coder |-> c, status |-> "VocabFull"]
             ELSE LET c1 == [add_new_token(c, <<ch>>, SetMin(c.unused_tokens))
                               EXCEPT !.input_vocab = @ \cup {ch}]
                  IN  IF c1.vocab_size > 0 /\ Trie_size(c1.token_map) >= c1.vocab_size
                      THEN [coder |-> c1, status |-> "VocabFull"]
                      ELSE update_vocab_from(c1, to_encode, i + 1)

LZ_update_vocab(c, to_encode) == update_vocab_from(c, to_encode, 1)

\* LZCoder::_propose_next_token that extends the prefix but never proposes an
\* unused id for it
propose_next_token_known_id(c, to_encode, learn) ==
    LET lp == Trie_longest_prefix(c.token_map, to_encode)
    IN  IF /\ learn
           /\ Len(lp.prefix) < Len(to_encode)
           /\ (c.vocab_size < 0 \/ Trie_size(c.token_map) < c.vocab_size)
        THEN [prefix |-> Append(lp.prefix, to_encode[Len(lp.prefix) + 1]), token |-> lp.token]
        ELSE lp

\* _propose_next_token that extends the match by two symbols where it can
propose_next_token_two_symbols(c, to_encode, learn) ==
    LET lp == Trie_longest_prefix(c.token_map, to_encode)
        k == IF Len(lp.prefix) + 2 <= Len(to_encode) THEN Len(lp.prefix) + 2 ELSE Len(lp.prefix) + 1
    IN  IF /\ learn
           /\ Len(lp.prefix) < Len(to_encode)
           /\ (c.vocab_size < 0 \/ Trie_size(c.token_map) < c.vocab_size)
        THEN [prefix |-> SubSeq(to_encode, 1, k),
              token |-> IF c.unused_tokens # {} THEN SetMin(c.unused_tokens) ELSE lp.token]
        ELSE lp

\* LZCoder::_propose_next_token(to_encode, learn)
propose_next_token(c, to_encode, learn) ==
    LET lp == Trie_longest_prefix(c.token_map, to_encode)
    IN  IF /\ learn
           /\ Len(lp.prefix) < Len(to_encode)
           /\ (c.vocab_size < 0 \/ Trie_size(c.token_map) < c.vocab_size)
        THEN [prefix |-> Append(lp.prefix, to_encode[Len(lp.prefix) + 1]),
              token |-> IF c.unused_tokens # {} THEN SetMin(c.unused_tokens) ELSE lp.token]
        ELSE lp

\* LZCoder::encode_one_token(to_encode, learn)
LZ_encode_one_token(c, to_encode, learn) ==
    LET p == propose_next_token(c, to_encode, learn)
        R(coder, token, status) == [coder |-> coder, prefix |-> p.prefix, token |-> token, status |-> status]
    IN  IF p.token \in DOMAIN c.encoded_vocab THEN R(c, p.token, "ok")
        ELSE IF ~learn THEN R(c, p.token, "LearningDisabled")
        ELSE IF c.vocab_size > 0 /\ Trie_size(c.token_map) >= c.vocab_size THEN R(c, p.token, "DictionaryFull")
        ELSE IF c.unused_tokens = {} THEN R(c, p.token, "VocabFull")
        ELSE LET new_token == SetMin(c.unused_tokens)
             IN  R(add_new_token(c, p.prefix, new_token), new_token, "ok")

\* LZCoder::encode that reports every empty match as a full dictionary
RECURSIVE LZ_encode_loop_always_full(_, _, _, _)
LZ_encode_loop_always_full(c, remaining, encoded, learn) ==
    IF remaining = <<>> THEN [coder |-> c, out |-> encoded, status |-> "ok"]
    ELSE LET r == LZ_encode_one_token(c, remaining, learn)
         IN  IF r.status # "ok" THEN [coder |-> r.coder, out |-> encoded, status |-> r.status]
             ELSE IF r.prefix = <<>>
                  THEN [coder |-> r.coder, out |-> encoded, status |-> "DictionaryFull"]
             ELSE LZ_encode_loop_always_full(r.coder, SubSeq(remaining, Len(r.prefix) + 1, Len(remaining)),
                                             Append(encoded, r.token), learn)

\* LZCoder::encode(to_encode, learn): the loop with `remaining` left to
\* encode and `encoded` emitted so far
RECURSIVE LZ_encode_loop(_, _, _, _)
LZ_encode_loop(c, remaining, encoded, learn) ==
    IF remaining = <<>> THEN [coder |-> c, out |-> encoded, status |-> "ok"]
    ELSE LET r == LZ_encode_one_token(c, remaining, learn)
         IN  IF r.status # "ok" THEN [coder |-> r.coder, out |-> encoded, status |-> r.status]
             ELSE IF r.prefix = <<>>
                  THEN [coder |-> r.coder, out |-> encoded,
                        status |-> IF learn THEN "DictionaryFull" ELSE "LearningDisabled"]
             ELSE LZ_encode_loop(r.coder, SubSeq(remaining, Len(r.prefix) + 1, Len(remaining)),
                                 Append(encoded, r.token), learn)

LZ_encode(c, to_encode, learn) == LZ_encode_loop(c, to_encode, <<>>, learn)

\* LZCoder::decode_one_token(to_decode): found is FALSE where the code throws
\* "token not found in encoded vocab"
LZ_decode_one_token(c, to_decode) ==
    IF to_decode \in DOMAIN c.encoded_vocab
    THEN [found |-> TRUE, tokens |-> c.encoded_vocab[to_decode]]
    ELSE [found |-> FALSE, tokens |-> <<>>]

\* LZCoder::decode(to_decode)
LZ_decode(c, to_decode) ==
    IF \A i \in 1..Len(to_decode) : LZ_decode_one_token(c, to_decode[i]).found
    THEN [out |-> Concat([i \in 1..Len(to_decode) |-> LZ_decode_one_token(c, to_decode[i]).tokens]),
          status |-> "ok"]
    ELSE [out |-> <<>>, status |-> "UnknownToken"]

-----------------------------------------------------------------------------
(* lz.cpp: HierarchicalLZCoder.  coders is a std::map from context to       *)
(* LZCoder.                                                                 *)

\* whether HierarchicalLZCoder(output_vocab_size, input_vocab) returns rather
\* than throws
HLZ_constructible(output_vocab_size, input_vocab) ==
    /\ ~(input_vocab # {} /\ Cardinality(input_vocab) > output_vocab_size)
    /\ LZCoder_constructible(output_vocab_size, input_vocab)

\* HierarchicalLZCoder::HierarchicalLZCoder(output_vocab_size, input_vocab)
HLZ_new(output_vocab_size, input_vocab) ==
    [vocab_size |-> output_vocab_size,
     coders |-> [ctx \in {EMPTY_TOKEN} |-> LZCoder_new(output_vocab_size, input_vocab)]]

\* HierarchicalLZCoder::update_vocab(to_encode)
HLZ_update_vocab(h, to_encode) ==
    LET r == LZ_update_vocab(h.coders[EMPTY_TOKEN], to_encode)
    IN  [coder |-> [h EXCEPT !.coders[EMPTY_TOKEN] = r.coder], status |-> r.status]

\* whether a coder's proposal for to_encode is a token it already knows
proposes_known(c, to_encode, learn) ==
    propose_next_token(c, to_encode, learn).token \in DOMAIN c.encoded_vocab

\* symbol_counts of encode_one_token: the native proposal starts at 0, every
\* other context adds one to the token it proposes when it knows that token
symbol_counts(coders, context, proposed_token, to_encode, learn) ==
    LET voters == {o \in (DOMAIN coders) \ {context} : proposes_known(coders[o], to_encode, learn)}
        voted == {propose_next_token(coders[o], to_encode, learn).token : o \in voters}
    IN  [t \in voted \cup {proposed_token} |->
            Cardinality({o \in voters : propose_next_token(coders[o], to_encode, learn).token = t})]

\* the scan of encode_one_token without the test that the token is untaken
RECURSIVE best_token_scan_taken(_, _, _, _, _)
best_token_scan_taken(counts, unused, todo, best_token, best_count) ==
    IF todo = {} THEN best_token
    ELSE LET t == SetMin(todo)
         IN  IF counts[t] > best_count
             THEN best_token_scan_taken(counts, unused, todo \ {t}, t, counts[t])
             ELSE best_token_scan_taken(counts, unused, todo \ {t}, best_token, best_count)

\* the scan of encode_one_token where a later token wins a tie
RECURSIVE best_token_scan_ties(_, _, _, _, _)
best_token_scan_ties(counts, unused, todo, best_token, best_count) ==
    IF todo = {} THEN best_token
    ELSE LET t == SetMin(todo)
         IN  IF counts[t] >= best_count /\ t \in unused
             THEN best_token_scan_ties(counts, unused, todo \ {t}, t, counts[t])
             ELSE best_token_scan_ties(counts, unused, todo \ {t}, best_token, best_count)

\* the scan for the untaken token with the highest count, over the tokens
\* `todo` still to visit in ascending order
RECURSIVE best_token_scan(_, _, _, _, _)
best_token_scan(counts, unused, todo, best_token, best_count) ==
    IF todo = {} THEN best_token
    ELSE LET t == SetMin(todo)
         IN  IF counts[t] > best_count /\ t \in unused
             THEN best_token_scan(counts, unused, todo \ {t}, t, counts[t])
             ELSE best_token_scan(counts, unused, todo \ {t}, best_token, best_count)

\* HierarchicalLZCoder::encode_one_token(to_encode, context, learn)
HLZ_encode_one_token(h, to_encode, context, learn) ==
    IF to_encode = <<>>
    THEN [coder |-> h, prefix |-> <<>>, token |-> EMPTY_TOKEN, status |-> "ok"]
    ELSE IF context \notin DOMAIN h.coders /\ ~learn
    THEN [coder |-> h, prefix |-> <<>>, token |-> EMPTY_TOKEN, status |-> "UnknownContext"]
    ELSE
    LET coders == IF context \in DOMAIN h.coders THEN h.coders
                  ELSE Put(h.coders, context, LZCoder_new(h.vocab_size, {}))
        h1 == [h EXCEPT !.coders = coders]
        coder == coders[context]
        p == propose_next_token(coder, to_encode, learn)
        R(hh, token, status) == [coder |-> hh, prefix |-> p.prefix, token |-> token, status |-> status]
    IN  IF p.token \in DOMAIN coder.encoded_vocab THEN R(h1, p.token, "ok")
        ELSE IF ~learn THEN R(h1, p.token, "LearningDisabled")
        ELSE IF coder.unused_tokens = {} THEN R(h1, p.token, "VocabFull")
        ELSE LET proposed_token == SetMin(coder.unused_tokens)
                 counts == symbol_counts(coders, context, proposed_token, to_encode, learn)
                 best_token == best_token_scan(counts, coder.unused_tokens, DOMAIN counts, proposed_token, 0)
             IN  R([h1 EXCEPT !.coders[context] = add_new_token(coder, p.prefix, best_token)],
                   best_token, "ok")

\* HierarchicalLZCoder::encode(to_encode, learn): the loop with `remaining`
\* left to encode and `encoded` emitted so far.  A step in the empty context
\* that consumes nothing returns the empty token and changes nothing, so the
\* loop repeats it for ever: status "diverges".
RECURSIVE HLZ_encode_loop(_, _, _, _, _)
HLZ_encode_loop(h, remaining, context, encoded, learn) ==
    IF remaining = <<>> THEN [coder |-> h, out |-> encoded, status |-> "ok"]
    ELSE LET r == HLZ_encode_one_token(h, remaining, context, learn)
         IN  IF r.status # "ok" THEN [coder |-> r.coder, out |-> encoded, status |-> r.status]
             ELSE IF r.prefix = <<>> /\ context = r.token
                  THEN [coder |-> r.coder, out |-> Append(encoded, r.token), status |-> "diverges"]
             ELSE HLZ_encode_loop(r.coder, SubSeq(remaining, Len(r.prefix) + 1, Len(remaining)),
                                  r.token, Append(encoded, r.token), learn)

HLZ_encode(h, to_encode, learn) == HLZ_encode_loop(h, to_encode, EMPTY_TOKEN, <<>>, learn)

\* HierarchicalLZCoder::decode that decodes every id in the empty context
RECURSIVE HLZ_decode_loop_no_context(_, _, _, _, _)
HLZ_decode_loop_no_context(h, to_decode, i, context, decoded) ==
    IF i > Len(to_decode) THEN [out |-> decoded, status |-> "ok"]
    ELSE LET d == LZ_decode_one_token(h.coders[EMPTY_TOKEN], to_decode[i])
         IN  IF ~d.found THEN [out |-> decoded, status |-> "UnknownToken"]
             ELSE HLZ_decode_loop_no_context(h, to_decode, i + 1, EMPTY_TOKEN, decoded \o d.tokens)

\* HierarchicalLZCoder::decode(to_decode) from position i on
RECURSIVE HLZ_decode_loop(_, _, _, _, _)
HLZ_decode_loop(h, to_decode, i, context, decoded) ==
    IF i > Len(to_decode) THEN [out |-> decoded, status |-> "ok"]
    ELSE IF context \notin DOMAIN h.coders THEN [out |-> decoded, status |-> "UnknownContext"]
    ELSE LET d == LZ_decode_one_token(h.coders[context], to_decode[i])
         IN  IF ~d.found THEN [out |-> decoded, status |-> "UnknownToken"]
             ELSE HLZ_decode_loop(h, to_decode, i + 1, to_decode[i], decoded \o d.tokens)

HLZ_decode(h, to_decode) == HLZ_decode_loop(h, to_decode, 1, EMPTY_TOKEN, <<>>)

-----------------------------------------------------------------------------
(* bpe.cpp: ContextualEncoder.  stats maps <<context, token, substring>> to *)
(* the substring's count; a context map maps a context to the map from     *)
(* token to tuple of that context.                                          *)

\* every way of picking, for each key of `options`, one value of options[key]
RECURSIVE Choices(_)
Choices(options) ==
    IF DOMAIN options = {} THEN {EmptyMap}
    ELSE LET k == CHOOSE x \in DOMAIN options : TRUE
             rest == Choices([x \in (DOMAIN options) \ {k} |-> options[x]])
         IN  {Put(f, k, v) : f \in rest, v \in options[k]}

\* get_context_stats(tokens, vocab): the loop from (0-based) position idx on;
\* start_idx[v] is the position of the last occurrence of v, -1 before any
RECURSIVE get_context_stats_from(_, _, _, _, _)
get_context_stats_from(tokens, vocab, idx, start_idx, stats) ==
    IF idx >= Len(tokens) THEN stats
    ELSE LET token == tokens[idx + 1]
             hits == {<<v, token, SubSeq(tokens, start_idx[v] + 2, idx + 1)>> :
                         v \in {w \in vocab : start_idx[w] # -1}}
             stats1 == [k \in (DOMAIN stats) \cup hits |->
                           (IF k \in DOMAIN stats THEN stats[k] ELSE 0) + (IF k \in hits THEN 1 ELSE 0)]
         IN  get_context_stats_from(tokens, vocab, idx + 1, Put(start_idx, token, idx), stats1)

get_context_stats(tokens, vocab) ==
    get_context_stats_from(tokens, vocab, 0, [v \in vocab |-> -1], EmptyMap)

\* the substrings counted for (context, end_token)
counted(stats, context, end_token) ==
    {k[3] : k \in {x \in DOMAIN stats : x[1] = context /\ x[2] = end_token}}

\* the scan for the most frequent substring keeps the first one it meets with
\* the largest count; which one that is depends on the iteration order of the
\* unordered map, so it may be any substring with the largest count
most_frequent(stats, context, end_token) ==
    LET subs == counted(stats, context, end_token)
        max_count == SetMax({stats[<<context, end_token, sub>>] : sub \in subs})
    IN  {sub \in subs : stats[<<context, end_token, sub>>] = max_count}

\* learn_contextual_tokenizer without the test that keeps the empty token
\* for the empty string
learn_contextual_tokenizer_any_end(tokens, vocab_opt) ==
    LET vocab == IF has_value(vocab_opt) THEN value(vocab_opt) ELSE SetOfSeq(tokens)
        stats == get_context_stats(tokens, vocab)
        ends(context) == {e \in vocab : counted(stats, context, e) # {}}
        rows(context) == Choices([e \in ends(context) \cup {0} |->
                                    IF e \notin ends(context) THEN {<<>>}
                                    ELSE most_frequent(stats, context, e)])
        singletons == [v \in vocab |-> <<v>>]
    IN  Choices([context \in vocab \cup {0} |->
                    IF context = 0 THEN {singletons} ELSE rows(context)])

\* learn_contextual_tokenizer(tokens, vocab_opt): the context maps it may return
learn_contextual_tokenizer(tokens, vocab_opt) ==
    LET vocab == IF has_value(vocab_opt) THEN value(vocab_opt) ELSE SetOfSeq(tokens)
        stats == get_context_stats(tokens, vocab)
        ends(context) == {e \in vocab \ {0} : counted(stats, context, e) # {}}
        rows(context) == Choices([e \in ends(context) \cup {0} |->
                                    IF e = 0 THEN {<<>>} ELSE most_frequent(stats, context, e)])
        singletons == [v \in vocab |-> <<v>>]
    IN  Choices([context \in vocab \cup {0} |->
                    IF context = 0 THEN {singletons} ELSE rows(context)])

\* contextual_encode that keeps the shortest match
RECURSIVE contextual_encode_from_shortest(_, _, _, _, _)
contextual_encode_from_shortest(tokens, contextual_tokens, context, cur_idx, encoded) ==
    IF cur_idx >= Len(tokens) THEN {[out |-> encoded, status |-> "ok"]}
    ELSE IF context \notin DOMAIN contextual_tokens THEN {[out |-> encoded, status |-> "out_of_range"]}
    ELSE LET row == contextual_tokens[context]
             rest == SubSeq(tokens, cur_idx + 1, Len(tokens))
             matches == {t \in DOMAIN row : Len(row[t]) > 0 /\ is_prefix(rest, row[t])}
             shortest == {t \in matches : \A u \in matches : Len(row[t]) <= Len(row[u])}
         IN  IF matches = {}
             THEN IF context = 0
                  THEN {[out |-> Append(encoded, 0), status |-> "diverges"]}
                  ELSE contextual_encode_from_shortest(tokens, contextual_tokens, 0, cur_idx, Append(encoded, 0))
             ELSE UNION {contextual_encode_from_shortest(tokens, contextual_tokens, best_match,
                                                         cur_idx + Len(row[best_match]),
                                                         Append(encoded, best_match)) : best_match \in shortest}

\* contextual_encode(tokens, contextual_tokens): the loop at (0-based)
\* position cur_idx in `context`; the results it may return.  Without a match
\* it emits 0 and advances by nothing; in context 0 that repeats for ever
\* (status "diverges").  contextual_tokens.at(context) throws on a missing
\* context (status "out_of_range").
RECURSIVE contextual_encode_from(_, _, _, _, _)
contextual_encode_from(tokens, contextual_tokens, context, cur_idx, encoded) ==
    IF cur_idx >= Len(tokens) THEN {[out |-> encoded, status |-> "ok"]}
    ELSE IF context \notin DOMAIN contextual_tokens THEN {[out |-> encoded, status |-> "out_of_range"]}
    ELSE LET row == contextual_tokens[context]
             rest == SubSeq(tokens, cur_idx + 1, Len(tokens))
             matches == {t \in DOMAIN row : Len(row[t]) > 0 /\ is_prefix(rest, row[t])}
             longest == {t \in matches : \A u \in matches : Len(row[u]) <= Len(row[t])}
         IN  IF matches = {}
             THEN IF context = 0
                  THEN {[out |-> Append(encoded, 0), status |-> "diverges"]}
                  ELSE contextual_encode_from(tokens, contextual_tokens, 0, cur_idx, Append(encoded, 0))
             ELSE UNION {contextual_encode_from(tokens, contextual_tokens, best_match,
                                                cur_idx + Len(row[best_match]),
                                                Append(encoded, best_match)) : best_match \in longest}

contextual_encode(tokens, contextual_tokens) ==
    contextual_encode_from(tokens, contextual_tokens, 0, 0, <<>>)

\* contextual_decode that never leaves the initial context
RECURSIVE contextual_decode_from_fixed_context(_, _, _, _, _)
contextual_decode_from_fixed_context(tokens, contextual_tokens, context, i, decoded) ==
    IF i > Len(tokens) THEN [out |-> decoded, status |-> "ok"]
    ELSE IF context \notin DOMAIN contextual_tokens \/ tokens[i] \notin DOMAIN contextual_tokens[context]
    THEN [out |-> decoded, status |-> "UnknownToken"]
    ELSE contextual_decode_from_fixed_context(tokens, contextual_tokens, context, i + 1,
                                              decoded \o contextual_tokens[context][tokens[i]])

\* contextual_decode(tokens, contextual_tokens, initial_context): the loop at
\* (1-based) position i; .at() throws on a missing context or token
RECURSIVE contextual_decode_from(_, _, _, _, _)
contextual_decode_from(tokens, contextual_tokens, context, i, decoded) ==
    IF i > Len(tokens) THEN [out |-> decoded, status |-> "ok"]
    ELSE IF context \notin DOMAIN contextual_tokens \/ tokens[i] \notin DOMAIN contextual_tokens[context]
    THEN [out |-> decoded, status |-> "UnknownToken"]
    ELSE contextual_decode_from(tokens, contextual_tokens, tokens[i], i + 1,
                                decoded \o contextual_tokens[context][tokens[i]])

contextual_decode(tokens, contextual_tokens, initial_context) ==
    contextual_decode_from(tokens, contextual_tokens, initial_context, 1, <<>>)

\* ContextualEncoder::ContextualEncoder(): max_token_value_ is stored and never read
CE_new == [context_map |-> EmptyMap, input_vocab |-> {}, output_vocab |-> {}]

\* ContextualEncoder::learn(tokens, input_vocab): the states it may leave
CE_learn(c, tokens, input_vocab) ==
    {[context_map |-> cm, input_vocab |-> DOMAIN cm, output_vocab |-> DOMAIN cm] :
        cm \in learn_contextual_tokenizer(tokens, input_vocab)}

\* ContextualEncoder::encode(tokens)
CE_encode(c, tokens) == contextual_encode(tokens, c.context_map)

\* ContextualEncoder::decode(tokens)
CE_decode(c, tokens) == contextual_decode(tokens, c.context_map, 0)

-----------------------------------------------------------------------------
(* bpe.cpp: BPE::learn as one call, DefragEncoder, ComposedTokenizer.  A    *)
(* stage of a pipeline is [type, t]: the tokenizer's class and its state.   *)

\* the merge loop of BPE::learn run to its end: the states it may leave
RECURSIVE learn_loop(_, _, _)
learn_loop(b, working_tokens, next_token) ==
    IF merge_candidates(b, working_tokens) = {} THEN {learn_end(b)}
    ELSE UNION {learn_loop(st.b, st.working_tokens, st.next_token) :
                   st \in {merge_step(b, working_tokens, next_token, pair) :
                              pair \in merge_candidates(b, working_tokens)}}

\* BPE::learn(tokens, input_vocab): the states it may leave
BPE_learn(b, tokens, input_vocab) ==
    LET vocab == IF has_value(input_vocab) THEN value(input_vocab) ELSE SetOfSeq(tokens)
    IN  UNION {learn_loop(st.b, st.working_tokens, st.next_token) :
                  st \in {learn_begin(b, tokens, input_vocab, vocab_list) : vocab_list \in Orders(vocab)}}

\* DefragEncoder::DefragEncoder()
Defrag_new == [input_vocab |-> {}, output_vocab |-> {},
               vocab_to_token |-> EmptyMap, token_to_vocab |-> EmptyMap]

\* DefragEncoder::learn(tokens, input_vocab): ids 1..n are given out in the
\* iteration order of the unordered input_vocab_
Defrag_learn(d, tokens, input_vocab) ==
    LET vocab == IF has_value(input_vocab) THEN value(input_vocab) ELSE SetOfSeq(tokens)
    IN  {[input_vocab |-> vocab,
          output_vocab |-> 1..Cardinality(vocab),
          vocab_to_token |-> [token \in vocab |-> CHOOSE idx \in 1..Len(order) : order[idx] = token],
          token_to_vocab |-> [idx \in 1..Len(order) |-> order[idx]]] : order \in Orders(vocab)}

\* a vector mapped through operator[] of the map m: a missing key reads 0
Lookup(m, tokens) == [i \in 1..Len(tokens) |-> IF tokens[i] \in DOMAIN m THEN m[tokens[i]] ELSE 0]

\* what operator[] leaves in the map m after the keys of tokens were read
Touched(m, tokens) == [k \in (DOMAIN m) \cup SetOfSeq(tokens) |-> IF k \in DOMAIN m THEN m[k] ELSE 0]

\* DefragEncoder::encode(tokens)
Defrag_encode(d, tokens) ==
    [t |-> [d EXCEPT !.vocab_to_token = Touched(@, tokens)], out |-> Lookup(d.vocab_to_token, tokens)]

\* DefragEncoder::decode(tokens)
Defrag_decode(d, tokens) ==
    [t |-> [d EXCEPT !.token_to_vocab = Touched(@, tokens)], out |-> Lookup(d.token_to_vocab, tokens)]

\* tokenizers_[i]->learn(tokens, input_vocab): the stages it may leave
Stage_learn(s, tokens, input_vocab) ==
    {[s EXCEPT !.t = t] :
        t \in CASE s.type = "BPE" -> BPE_learn(s.t, tokens, input_vocab)
                [] s.type = "ContextualEncoder" -> CE_learn(s.t, tokens, input_vocab)
                [] s.type = "DefragEncoder" -> Defrag_learn(s.t, tokens, input_vocab)}

\* tokenizers_[i]->encode(tokens): the results it may give
Stage_encode(s, tokens) ==
    CASE s.type = "BPE" -> {[stage |-> s, out |-> BPE_encode(s.t, tokens), status |-> "ok"]}
      [] s.type = "ContextualEncoder" ->
            {[stage |-> s, out |-> r.out, status |-> r.status] : r \in CE_encode(s.t, tokens)}
      [] s.type = "DefragEncoder" ->
            {[stage |-> [s EXCEPT !.t = r.t], out |-> r.out, status |-> "ok"] :
                r \in {Defrag_encode(s.t, tokens)}}

\* tokenizers_[i]->decode(tokens)
Stage_decode(s, tokens) ==
    CASE s.type = "BPE" -> [stage |-> s, out |-> BPE_decode(s.t, tokens), status |-> "ok"]
      [] s.type = "ContextualEncoder" ->
            [stage |-> s, out |-> CE_decode(s.t, tokens).out, status |-> CE_decode(s.t, tokens).status]
      [] s.type = "DefragEncoder" ->
            [stage |-> [s EXCEPT !.t = Defrag_decode(s.t, tokens).t],
             out |-> Defrag_decode(s.t, tokens).out, status |-> "ok"]

\* tokenizers_[i]->get_output_vocab()
get_output_vocab(s) == s.t.output_vocab

\* ComposedTokenizer::encode(tokens) from stage i on (1-based): the results
\* it may give, with the stages as the calls leave them
RECURSIVE Composed_encode_from(_, _, _)
Composed_encode_from(tokenizers, i, current_tokens) ==
    IF i > Len(tokenizers)
    THEN {[tokenizers |-> tokenizers, out |-> current_tokens, status |-> "ok"]}
    ELSE UNION {IF r.status # "ok"
                THEN {[tokenizers |-> [tokenizers EXCEPT ![i] = r.stage], out |-> r.out, status |-> r.status]}
                ELSE Composed_encode_from([tokenizers EXCEPT ![i] = r.stage], i + 1, r.out) :
                   r \in Stage_encode(tokenizers[i], current_tokens)}

Composed_encode(tokenizers, tokens) == Composed_encode_from(tokenizers, 1, tokens)

\* ComposedTokenizer::decode that passes through the stages first to last
RECURSIVE Composed_decode_forward(_, _, _)
Composed_decode_forward(tokenizers, i, current_tokens) ==
    IF i < 1
    THEN [tokenizers |-> tokenizers, out |-> current_tokens, status |-> "ok"]
    ELSE LET j == Len(tokenizers) + 1 - i
             r == Stage_decode(tokenizers[j], current_tokens)
         IN  IF r.status # "ok"
             THEN [tokenizers |-> [tokenizers EXCEPT ![j] = r.stage], out |-> r.out, status |-> r.status]
             ELSE Composed_decode_forward([tokenizers EXCEPT ![j] = r.stage], i - 1, r.out)

\* ComposedTokenizer::decode(tokens) from stage i down (1-based)
RECURSIVE Composed_decode_from(_, _, _)
Composed_decode_from(tokenizers, i, current_tokens) ==
    IF i < 1
    THEN [tokenizers |-> tokenizers, out |-> current_tokens, status |-> "ok"]
    ELSE LET r == Stage_decode(tokenizers[i], current_tokens)
         IN  IF r.status # "ok"
             THEN [tokenizers |-> [tokenizers EXCEPT ![i] = r.stage], out |-> r.out, status |-> r.status]
             ELSE Composed_decode_from([tokenizers EXCEPT ![i] = r.stage], i - 1, r.out)

Composed_decode(tokenizers, tokens) == Composed_decode_from(tokenizers, Len(tokenizers), tokens)

-----------------------------------------------------------------------------
(* The calls of a behaviour                                                 *)

NoCall == [op |-> "none", tokens |-> <<>>, learn |-> FALSE, ctx |-> 0,
           out |-> <<>>, prefix |-> <<>>, status |-> "ok", fresh |-> FALSE]

Call(op, tokens, out, status) ==
    [op |-> op, tokens |-> tokens, learn |-> FALSE, ctx |-> 0,
     out |-> out, prefix |-> <<>>, status |-> status, fresh |-> FALSE]

\* an object a behaviour does not exercise
Unused == "unused"

NoHist == [fresh |-> TRUE, updated |-> FALSE]

NoLearn == [pc |-> "idle", tokens |-> <<>>, working_tokens |-> <<>>, next_token |-> 0, steps |-> <<>>]

BPESeqs == SeqsUpTo(BPESymbols, MaxLen)

-----------------------------------------------------------------------------
(* BPE behaviours: a BPE is constructed, then learn / encode / decode       *)

InitBPE ==
    /\ kind = "bpe"
    /\ \/ \E n \in 1..MaxOutputVocab : bpe = BPE_new(Some(n), nullopt)
       \/ \E m \in 0..MaxMerges : bpe = BPE_new(nullopt, Some(m))
    /\ lrn = NoLearn
    /\ call = NoCall
    /\ trie = Unused /\ lz = Unused /\ hlz = Unused /\ ce = Unused /\ pipe = Unused /\ hist = NoHist

\* tokenizer.learn(tokens) on the constructed tokenizer, with input_vocab
\* defaulted, up to the merge loop; with fewer than two tokens learn returns
\* at once
BPELearn ==
    /\ kind = "bpe" /\ lrn.pc = "idle"
    /\ \E tokens \in BPESeqs : \E vocab_list \in Orders(SetOfSeq(tokens)) :
          LET st == learn_begin(bpe, tokens, nullopt, vocab_list)
          IN  IF Len(tokens) < 2
              THEN /\ bpe' = learn_end(st.b)
                   /\ lrn' = [pc |-> "learned", tokens |-> tokens, working_tokens |-> st.working_tokens,
                              next_token |-> st.next_token, steps |-> <<>>]
              ELSE /\ bpe' = st.b
                   /\ lrn' = [pc |-> "merging", tokens |-> tokens, working_tokens |-> st.working_tokens,
                              next_token |-> st.next_token, steps |-> <<>>]
    /\ call' = NoCall
    /\ UNCHANGED <<kind, trie, lz, hlz, ce, pipe, hist>>

\* one iteration of learn's merge loop; `steps` keeps, per merge step, the
\* symbol written into the working sequence and the id under which
\* token_values stores the merge
BPEMergeStep ==
    /\ kind = "bpe" /\ lrn.pc = "merging"
    /\ \E pair \in merge_candidates(bpe, lrn.working_tokens) :
          LET st == merge_step(bpe, lrn.working_tokens, lrn.next_token, pair)
          IN  /\ bpe' = st.b
              /\ lrn' = [lrn EXCEPT !.working_tokens = st.working_tokens,
                                    !.next_token = st.next_token,
                                    !.steps = Append(@, [substituted |-> lrn.next_token,
                                                         merge_token_id |-> Len(st.b.merges)])]
    /\ UNCHANGED <<kind, trie, call, lz, hlz, ce, pipe, hist>>

\* the merge loop ends and learn returns
BPELearnEnd ==
    /\ kind = "bpe" /\ lrn.pc = "merging"
    /\ merge_candidates(bpe, lrn.working_tokens) = {}
    /\ bpe' = learn_end(bpe)
    /\ lrn' = [lrn EXCEPT !.pc = "learned"]
    /\ UNCHANGED <<kind, trie, call, lz, hlz, ce, pipe, hist>>

\* tokenizer.encode(tokens) of the training sequence
BPEEncode ==
    /\ kind = "bpe" /\ lrn.pc = "learned"
    /\ call' = Call("encode", lrn.tokens, BPE_encode(bpe, lrn.tokens), "ok")
    /\ UNCHANGED <<kind, trie, bpe, lrn, lz, hlz, ce, pipe, hist>>

\* tokenizer.decode(ids) of the last encode's output
BPEDecode ==
    /\ kind = "bpe" /\ lrn.pc = "learned" /\ call.op = "encode"
    /\ call' = Call("decode", call.out, BPE_decode(bpe, call.out), "ok")
    /\ UNCHANGED <<kind, trie, bpe, lrn, lz, hlz, ce, pipe, hist>>

NextBPE == BPELearn \/ BPEMergeStep \/ BPELearnEnd \/ BPEEncode \/ BPEDecode

SpecBPE == InitBPE /\ [][NextBPE]_vars

-----------------------------------------------------------------------------
(* LZ behaviours: an LZCoder is constructed, then any sequence of           *)
(* update_vocab / encode / encode_one_token / decode calls                  *)

LZSymbols == 1..2

LZSeqs == SeqsUpTo(LZSymbols, MaxSeqLen)

\* scenario 2 of the specification's testable properties
LZScenario == [output_vocab_size |-> 8, input_vocab |-> {1, 2, 3}, tokens |-> <<1, 2, 1, 2, 3>>]

\* the sequences handed to a coder: the scenario's coder gets the scenario's
\* sequence, every other coder every short sequence
LZInputs(c) == IF c.vocab_size = LZScenario.output_vocab_size + 1 THEN {LZScenario.tokens} ELSE LZSeqs

LZCall(op, tokens, learn, prefix, out, status) ==
    [op |-> op, tokens |-> tokens, learn |-> learn, ctx |-> EMPTY_TOKEN,
     out |-> out, prefix |-> prefix, status |-> status, fresh |-> hist.fresh]

InitLZ ==
    /\ kind = "lz"
    /\ \/ \E n \in 1..MaxVocabSize : \E v \in SUBSET LZSymbols :
             /\ LZCoder_constructible(n, v)
             /\ lz = LZCoder_new(n, v)
       \/ lz = LZCoder_new(LZScenario.output_vocab_size, LZScenario.input_vocab)
    /\ hist = NoHist
    /\ call = NoCall
    /\ trie = Unused /\ bpe = Unused /\ lrn = Unused /\ hlz = Unused /\ ce = Unused /\ pipe = Unused

\* coder.update_vocab(to_encode)
LZUpdateVocab ==
    /\ kind = "lz" /\ call.op = "none"
    /\ \E to_encode \in LZInputs(lz) :
          \E r \in {LZ_update_vocab(lz, to_encode)} :
              /\ lz' = r.coder
              /\ call' = LZCall("update_vocab", to_encode, FALSE, <<>>, <<>>, r.status)
    /\ hist' = [fresh |-> FALSE, updated |-> TRUE]
    /\ UNCHANGED <<kind, trie, bpe, lrn, hlz, ce, pipe>>

\* coder.encode(to_encode, learn)
LZEncode ==
    /\ kind = "lz" /\ call.op = "none"
    /\ \E to_encode \in LZInputs(lz), learn \in BOOLEAN :
          \E r \in {LZ_encode(lz, to_encode, learn)} :
              /\ lz' = r.coder
              /\ call' = LZCall("encode", to_encode, learn, <<>>, r.out, r.status)
              /\ hist' = [hist EXCEPT !.fresh = @ /\ ~learn]
    /\ UNCHANGED <<kind, trie, bpe, lrn, hlz, ce, pipe>>

\* coder.encode_one_token(to_encode, learn)
LZEncodeOneToken ==
    /\ kind = "lz" /\ call.op = "none"
    /\ \E to_encode \in LZInputs(lz), learn \in BOOLEAN :
          \E r \in {LZ_encode_one_token(lz, to_encode, learn)} :
              /\ lz' = r.coder
              /\ call' = LZCall("encode_one_token", to_encode, learn, r.prefix, <<r.token>>, r.status)
              /\ hist' = [hist EXCEPT !.fresh = @ /\ ~learn]
    /\ UNCHANGED <<kind, trie, bpe, lrn, hlz, ce, pipe>>

\* coder.decode(to_decode) of the last encode's output or of a single id
LZDecode ==
    /\ kind = "lz"
    /\ \E to_decode \in IF call.op = "encode" /\ call.status = "ok" THEN {call.out}
                       ELSE IF call.op = "none" THEN {<<t>> : t \in EMPTY_TOKEN..MaxVocabSize}
                       ELSE {} :
          \E r \in {LZ_decode(lz, to_decode)} :
              call' = LZCall("decode", to_decode, FALSE, <<>>, r.out, r.status)
    /\ UNCHANGED <<kind, trie, bpe, lrn, lz, hlz, ce, pipe, hist>>

\* the caller drops the result of the last call and goes on to the next one
\* (a call is made once the previous result is dropped; decode may also take
\* the output of the encode before it)
LZReturn ==
    /\ kind = "lz" /\ call.op # "none"
    /\ call' = NoCall
    /\ UNCHANGED <<kind, trie, bpe, lrn, lz, hlz, ce, pipe, hist>>

NextLZ == LZUpdateVocab \/ LZEncode \/ LZEncodeOneToken \/ LZDecode \/ LZReturn

SpecLZ == InitLZ /\ [][NextLZ]_vars

-----------------------------------------------------------------------------
(* Hierarchical LZ behaviours: a HierarchicalLZCoder is constructed, then   *)
(* any sequence of update_vocab / encode / encode_one_token / decode calls  *)

HLZSeqs == SeqsUpTo(LZSymbols, MaxHSeqLen)

HLZCall(op, tokens, learn, ctx, prefix, out, status) ==
    [op |-> op, tokens |-> tokens, learn |-> learn, ctx |-> ctx,
     out |-> out, prefix |-> prefix, status |-> status, fresh |-> hist.fresh]

InitHLZ ==
    /\ kind = "hlz"
    /\ \E n \in HLZVocabSizes : \E v \in SUBSET LZSymbols :
          /\ HLZ_constructible(n, v)
          /\ hlz = HLZ_new(n, v)
    /\ hist = NoHist
    /\ call = NoCall
    /\ trie = Unused /\ bpe = Unused /\ lrn = Unused /\ lz = Unused /\ ce = Unused /\ pipe = Unused

\* coder.update_vocab(to_encode)
HLZUpdateVocab ==
    /\ kind = "hlz" /\ call.op = "none"
    /\ \E to_encode \in HLZSeqs :
          \E r \in {HLZ_update_vocab(hlz, to_encode)} :
              /\ hlz' = r.coder
              /\ call' = HLZCall("update_vocab", to_encode, FALSE, EMPTY_TOKEN, <<>>, <<>>, r.status)
    /\ hist' = [fresh |-> FALSE, updated |-> TRUE]
    /\ UNCHANGED <<kind, trie, bpe, lrn, lz, ce, pipe>>

\* coder.encode(to_encode, learn)
HLZEncode ==
    /\ kind = "hlz" /\ call.op = "none"
    /\ \E to_encode \in HLZSeqs, learn \in BOOLEAN :
          \E r \in {HLZ_encode(hlz, to_encode, learn)} :
              /\ hlz' = r.coder
              /\ call' = HLZCall("encode", to_encode, learn, EMPTY_TOKEN, <<>>, r.out, r.status)
              /\ hist' = [hist EXCEPT !.fresh = @ /\ ~learn]
    /\ UNCHANGED <<kind, trie, bpe, lrn, lz, ce, pipe>>

\* coder.encode_one_token(to_encode, context, learn)
HLZEncodeOneToken ==
    /\ kind = "hlz" /\ call.op = "none"
    /\ \E to_encode \in HLZSeqs, context \in EMPTY_TOKEN..(hlz.vocab_size - 1), learn \in BOOLEAN :
          \E r \in {HLZ_encode_one_token(hlz, to_encode, context, learn)} :
              /\ hlz' = r.coder
              /\ call' = HLZCall("encode_one_token", to_encode, learn, context, r.prefix, <<r.token>>, r.status)
              /\ hist' = [hist EXCEPT !.fresh = @ /\ ~learn]
    /\ UNCHANGED <<kind, trie, bpe, lrn, lz, ce, pipe>>

\* coder.decode(to_decode) of the last encode's output or of a single id
HLZDecode ==
    /\ kind = "hlz"
    /\ \E to_decode \in IF call.op = "encode" /\ call.status = "ok" THEN {call.out}
                       ELSE IF call.op = "none" THEN {<<t>> : t \in EMPTY_TOKEN..hlz.vocab_size}
                       ELSE {} :
          \E r \in {HLZ_decode(hlz, to_decode)} :
              call' = HLZCall("decode", to_decode, FALSE, EMPTY_TOKEN, <<>>, r.out, r.status)
    /\ UNCHANGED <<kind, trie, bpe, lrn, lz, hlz, ce, pipe, hist>>

\* the caller drops the result of the last call and goes on to the next one
HLZReturn ==
    /\ kind = "hlz" /\ call.op # "none"
    /\ call' = NoCall
    /\ UNCHANGED <<kind, trie, bpe, lrn, lz, hlz, ce, pipe, hist>>

NextHLZ == HLZUpdateVocab \/ HLZEncode \/ HLZEncodeOneToken \/ HLZDecode \/ HLZReturn

SpecHLZ == InitHLZ /\ [][NextHLZ]_vars

\* both kinds of coder
SpecCoders == (InitLZ \/ InitHLZ) /\ [][NextLZ \/ NextHLZ]_vars

-----------------------------------------------------------------------------
(* Contextual encoder behaviours: a ContextualEncoder is constructed, then  *)
(* learn, encode and decode are called                                      *)

CESymbols == 1..3

\* scenario 4 of the specification's testable properties
CEScenario == <<1, 2, 1, 3, 1, 2, 1, 3>>

\* the training sequences, and the sequences handed to encode
CETraining == SeqsUpTo(CESymbols, MaxCELen) \cup {CEScenario}

CEInputs == SeqsUpTo(CESymbols, MaxCEInput) \cup {lrn.tokens}

InitCE ==
    /\ kind = "ce"
    /\ ce = CE_new
    /\ lrn = NoLearn
    /\ call = NoCall
    /\ trie = Unused /\ bpe = Unused /\ lz = Unused /\ hlz = Unused /\ pipe = Unused /\ hist = NoHist

\* encoder.learn(tokens) with input_vocab defaulted
CELearn ==
    /\ kind = "ce" /\ call.op = "none"
    /\ \E tokens \in CETraining :
          /\ ce' \in CE_learn(ce, tokens, nullopt)
          /\ lrn' = [NoLearn EXCEPT !.pc = "learned", !.tokens = tokens]
    /\ UNCHANGED <<kind, trie, bpe, lz, hlz, pipe, hist, call>>

\* encoder.encode(tokens)
CEEncode ==
    /\ kind = "ce" /\ call.op = "none"
    /\ \E tokens \in CEInputs : \E r \in CE_encode(ce, tokens) :
          call' = Call("encode", tokens, r.out, r.status)
    /\ UNCHANGED <<kind, trie, bpe, lrn, lz, hlz, ce, pipe, hist>>

\* encoder.decode(ids) of the last encode's output
CEDecode ==
    /\ kind = "ce" /\ call.op = "encode" /\ call.status = "ok"
    /\ \E r \in {CE_decode(ce, call.out)} :
          call' = Call("decode", call.out, r.out, r.status)
    /\ UNCHANGED <<kind, trie, bpe, lrn, lz, hlz, ce, pipe, hist>>

\* the caller drops the result of the last call and goes on to the next one
CEReturn ==
    /\ kind = "ce" /\ call.op # "none"
    /\ call' = NoCall
    /\ UNCHANGED <<kind, trie, bpe, lrn, lz, hlz, ce, pipe, hist>>

NextCE == CELearn \/ CEEncode \/ CEDecode \/ CEReturn

SpecCE == InitCE /\ [][NextCE]_vars

-----------------------------------------------------------------------------
(* Pipeline behaviours: a ComposedTokenizer is constructed over freshly     *)
(* constructed stages, learn runs stage by stage, then encode and decode    *)
(* are called                                                               *)

PipeSymbols == 1..3

StageTypes == {"BPE", "ContextualEncoder", "DefragEncoder"}

Stage_new(type) ==
    [type |-> type,
     t |-> CASE type = "BPE" -> BPE_new(Some(PipeMaxOutputVocab), nullopt)
             [] type = "ContextualEncoder" -> CE_new
             [] type = "DefragEncoder" -> Defrag_new]

\* pc: where ComposedTokenizer::learn stands; i: the (1-based) stage it
\* trains next; handed: per stage after the first, the sequence and the
\* input_vocab its learn was called with
NoPipe(tokenizers) ==
    [tokenizers |-> tokenizers, pc |-> "idle", i |-> 1, tokens |-> <<>>,
     current_tokens |-> <<>>, handed |-> <<>>]

InitPipe ==
    /\ kind = "pipe"
    /\ \E types \in SeqsUpTo(StageTypes, MaxStages) :
          pipe = NoPipe([k \in 1..Len(types) |-> Stage_new(types[k])])
    /\ call = NoCall
    /\ trie = Unused /\ bpe = Unused /\ lrn = Unused /\ lz = Unused /\ hlz = Unused /\ ce = Unused /\ hist = NoHist

\* stage i has learned and encodes the training stream; learn goes on to the
\* next stage, returns after the last one, or never returns when the encode
\* does not
AfterStage(p, r) ==
    [p EXCEPT !.tokenizers[p.i] = r.stage,
              !.current_tokens = r.out,
              !.i = p.i + 1,
              !.pc = IF r.status # "ok" THEN "diverged"
                     ELSE IF p.i = Len(p.tokenizers) THEN "learned" ELSE "learning"]

\* pipeline.learn(tokens, input_vocab) up to the end of the first stage
PipeLearn ==
    /\ kind = "pipe" /\ pipe.pc = "idle"
    /\ \E tokens \in SeqsUpTo(PipeSymbols, MaxPipeLen), input_vocab \in {nullopt, Some(PipeSymbols)} :
          IF pipe.tokenizers = <<>>
          THEN pipe' = [pipe EXCEPT !.pc = "learned", !.tokens = tokens]
          ELSE \E s \in Stage_learn(pipe.tokenizers[1], tokens, input_vocab) :
                  \E r \in Stage_encode(s, tokens) :
                      pipe' = AfterStage([pipe EXCEPT !.tokens = tokens], r)
    /\ UNCHANGED <<kind, trie, bpe, lrn, lz, hlz, ce, hist, call>>

\* one iteration of learn's loop over the later stages
PipeLearnStage ==
    /\ kind = "pipe" /\ pipe.pc = "learning"
    /\ LET vocab == get_output_vocab(pipe.tokenizers[pipe.i - 1])
           p == [pipe EXCEPT !.handed = Append(@, [tokens |-> pipe.current_tokens, input_vocab |-> vocab])]
       IN  \E s \in Stage_learn(pipe.tokenizers[pipe.i], pipe.current_tokens, Some(vocab)) :
              \E r \in Stage_encode(s, pipe.current_tokens) :
                  pipe' = AfterStage(p, r)
    /\ UNCHANGED <<kind, trie, bpe, lrn, lz, hlz, ce, hist, call>>

\* pipeline.encode(tokens) of the training sequence
PipeEncode ==
    /\ kind = "pipe" /\ pipe.pc = "learned" /\ call.op = "none"
    /\ \E r \in Composed_encode(pipe.tokenizers, pipe.tokens) :
          /\ pipe' = [pipe EXCEPT !.tokenizers = r.tokenizers]
          /\ call' = Call("encode", pipe.tokens, r.out, r.status)
    /\ UNCHANGED <<kind, trie, bpe, lrn, lz, hlz, ce, hist>>

\* pipeline.decode(ids) of the last encode's output
PipeDecode ==
    /\ kind = "pipe" /\ call.op = "encode" /\ call.status = "ok"
    /\ \E r \in {Composed_decode(pipe.tokenizers, call.out)} :
          /\ pipe' = [pipe EXCEPT !.tokenizers = r.tokenizers]
          /\ call' = Call("decode", call.out, r.out, r.status)
    /\ UNCHANGED <<kind, trie, bpe, lrn, lz, hlz, ce, hist>>

\* the caller drops the result of the last call
PipeReturn ==
    /\ kind = "pipe" /\ call.op # "none"
    /\ call' = NoCall
    /\ UNCHANGED <<kind, trie, bpe, lrn, lz, hlz, ce, pipe, hist>>

NextPipe == PipeLearn \/ PipeLearnStage \/ PipeEncode \/ PipeDecode \/ PipeReturn

SpecPipe == InitPipe /\ [][NextPipe]_vars

\* the sequences, besides the training sequence, handed to encode and decode;
\* a behaviour makes one such call (hist.fresh until then)
PipeInputs == SeqsUpTo(0..PipeMaxOutputVocab, MaxPipeInput)

\* pipeline.encode(tokens) of any sequence, before or after learn
PipeEncodeAny ==
    /\ kind = "pipe" /\ pipe.pc \in {"idle", "learned"} /\ call.op = "none" /\ hist.fresh
    /\ \E tokens \in PipeInputs : \E r \in Composed_encode(pipe.tokenizers, tokens) :
          /\ pipe' = [pipe EXCEPT !.tokenizers = r.tokenizers]
          /\ call' = Call("encode", tokens, r.out, r.status)
    /\ hist' = [hist EXCEPT !.fresh = FALSE]
    /\ UNCHANGED <<kind, trie, bpe, lrn, lz, hlz, ce>>

\* pipeline.decode(tokens) of any sequence, before or after learn
PipeDecodeAny ==
    /\ kind = "pipe" /\ pipe.pc \in {"idle", "learned"} /\ call.op = "none" /\ hist.fresh
    /\ \E tokens \in PipeInputs : \E r \in {Composed_decode(pipe.tokenizers, tokens)} :
          /\ pipe' = [pipe EXCEPT !.tokenizers = r.tokenizers]
          /\ call' = Call("decode", tokens, r.out, r.status)
    /\ hist' = [hist EXCEPT !.fresh = FALSE]
    /\ UNCHANGED <<kind, trie, bpe, lrn, lz, hlz, ce>>

NextPipeCalls == NextPipe \/ PipeEncodeAny \/ PipeDecodeAny

SpecPipeCalls == InitPipe /\ [][NextPipeCalls]_vars

-----------------------------------------------------------------------------
(* BPE behaviours with repeated learn calls: a BPE is constructed with only *)
(* max_merges, then learn is called any number of times                     *)

RelearnSeqs == SeqsUpTo(BPESymbols, MaxRelearnLen)

InitRelearn ==
    /\ kind = "relearn"
    /\ \E m \in 0..MaxMerges : bpe = BPE_new(nullopt, Some(m))
    /\ lrn = NoLearn
    /\ call = NoCall
    /\ trie = Unused /\ lz = Unused /\ hlz = Unused /\ ce = Unused /\ pipe = Unused /\ hist = NoHist

\* tokenizer.learn(tokens) with input_vocab defaulted, as one call, on the
\* tokenizer as the calls before left it; steps numbers the learn calls so far
RelearnLearn ==
    /\ kind = "relearn" /\ Len(lrn.steps) < MaxLearnCalls
    /\ \E tokens \in RelearnSeqs :
          /\ bpe' \in BPE_learn(bpe, tokens, nullopt)
          /\ lrn' = [NoLearn EXCEPT !.pc = "learned", !.tokens = tokens,
                                    !.steps = Append(lrn.steps, Len(lrn.steps) + 1)]
    /\ UNCHANGED <<kind, trie, call, lz, hlz, ce, pipe, hist>>

\* tokenizer.encode(tokens) of the last training sequence
RelearnEncode ==
    /\ kind = "relearn" /\ lrn.pc = "learned"
    /\ call' = Call("encode", lrn.tokens, BPE_encode(bpe, lrn.tokens), "ok")
    /\ UNCHANGED <<kind, trie, bpe, lrn, lz, hlz, ce, pipe, hist>>

NextRelearn == RelearnLearn \/ RelearnEncode

SpecRelearn == InitRelearn /\ [][NextRelearn]_vars

-----------------------------------------------------------------------------
(* The contextual encoder trained with a given vocabulary                   *)

\* the symbols of training sequences and vocabularies, the empty-string
\* token 0 among them: learn does not reject it
CEVocabSymbols == 0..2

CEVocabTraining == SeqsUpTo(CEVocabSymbols, MaxCEVocabLen)

InitCEVocab ==
    /\ kind = "cevocab"
    /\ ce = CE_new
    /\ lrn = NoLearn
    /\ call = NoCall
    /\ hist = [vocab |-> {}]
    /\ trie = Unused /\ bpe = Unused /\ lz = Unused /\ hlz = Unused /\ pipe = Unused

\* encoder.learn(tokens, input_vocab) with a vocabulary
CEVocabLearn ==
    /\ kind = "cevocab"
    /\ \E tokens \in CEVocabTraining, V \in SUBSET CEVocabSymbols :
          /\ ce' \in CE_learn(ce, tokens, Some(V))
          /\ lrn' = [NoLearn EXCEPT !.pc = "learned", !.tokens = tokens]
          /\ hist' = [vocab |-> V]
    /\ UNCHANGED <<kind, trie, bpe, lz, hlz, pipe, call>>

NextCEVocab == CEVocabLearn

SpecCEVocab == InitCEVocab /\ [][NextCEVocab]_vars

-----------------------------------------------------------------------------
(* The trie on its own                                                      *)

TrieSymbols == 1..2

TrieValues == 0..1

TrieKeys == SeqsUpTo(TrieSymbols, MaxTrieKeyLen)

\* the queries: one symbol longer than the longest key
TrieQueries == SeqsUpTo(TrieSymbols, MaxTrieKeyLen + 1)

InitTrie ==
    /\ kind = "trie"
    /\ trie = Trie_new
    /\ call = NoCall
    /\ bpe = Unused /\ lrn = Unused /\ lz = Unused /\ hlz = Unused
    /\ ce = Unused /\ pipe = Unused /\ hist = NoHist

\* trie.insert(key, value)
TrieInsert ==
    /\ kind = "trie"
    /\ \E key \in TrieKeys, val \in TrieValues :
          /\ Trie_contains(trie, key) \/ Trie_size(trie) < MaxTrieKeys
          /\ trie' = Trie_insert(trie, key, val)
    /\ call' = NoCall
    /\ UNCHANGED <<kind, bpe, lrn, lz, hlz, ce, pipe, hist>>

\* trie.longest_prefix(sequence)
TrieLongestPrefix ==
    /\ kind = "trie"
    /\ \E sequence \in TrieQueries :
          \E r \in {Trie_longest_prefix(trie, sequence)} :
              call' = [Call("longest_prefix", sequence, <<r.token>>, "ok") EXCEPT !.prefix = r.prefix]
    /\ UNCHANGED <<kind, trie, bpe, lrn, lz, hlz, ce, pipe, hist>>

NextTrie == TrieInsert \/ TrieLongestPrefix

SpecTrie == InitTrie /\ [][NextTrie]_vars

-----------------------------------------------------------------------------
(* get_stats on its own                                                     *)

StatsSeqs == SeqsUpTo(BPESymbols, MaxStatsLen)

InitStats ==
    /\ kind = "stats"
    /\ call = NoCall
    /\ trie = Unused /\ bpe = Unused /\ lrn = Unused /\ lz = Unused /\ hlz = Unused
    /\ ce = Unused /\ pipe = Unused /\ hist = NoHist

\* get_stats(tokens)
StatsCall ==
    /\ kind = "stats"
    /\ \E tokens \in StatsSeqs : \E r \in get_stats_outcomes(tokens, BPESymbols) :
          call' = Call("get_stats", tokens, r.out, r.status)
    /\ UNCHANGED <<kind, trie, bpe, lrn, lz, hlz, ce, pipe, hist>>

NextStats == StatsCall

SpecStats == InitStats /\ [][NextStats]_vars

-----------------------------------------------------------------------------
(* merge_pairs on its own                                                   *)

MergeSymbols == 1..2

\* the new token: a symbol that does not occur in the sequences
MergeNewTokens == {SetMax(MergeSymbols) + 1}

MergeSeqs == SeqsUpTo(MergeSymbols, MaxMergeLen)

InitMerge ==
    /\ kind = "merge"
    /\ call = NoCall
    /\ trie = Unused /\ bpe = Unused /\ lrn = Unused /\ lz = Unused /\ hlz = Unused
    /\ ce = Unused /\ pipe = Unused /\ hist = NoHist

\* merge_pairs(tokens, pair, new_token); the call keeps the pair in `prefix`
\* and the new token in `ctx`
MergeCall ==
    /\ kind = "merge"
    /\ \E tokens \in MergeSeqs, pair \in MergeSymbols \X MergeSymbols, new_token \in MergeNewTokens :
          call' = [Call("merge_pairs", tokens, merge_pairs(tokens, pair, new_token), "ok")
                     EXCEPT !.prefix = pair, !.ctx = new_token]
    /\ UNCHANGED <<kind, trie, bpe, lrn, lz, hlz, ce, pipe, hist>>

NextMerge == MergeCall

SpecMerge == InitMerge /\ [][NextMerge]_vars

-----------------------------------------------------------------------------
(* A BPE trained on sequences that hold the token 0, as the output of a     *)
(* ContextualEncoder does, with the vocabulary defaulted or given           *)

BPEVocabSymbols == 0..2

BPEVocabSeqs == SeqsUpTo(BPEVocabSymbols, MaxBPEVocabLen)

InitBPEVocab ==
    /\ kind = "bpevocab"
    /\ \E n \in 1..MaxOutputVocab : bpe = BPE_new(Some(n), nullopt)
    /\ lrn = NoLearn
    /\ call = NoCall
    /\ trie = Unused /\ lz = Unused /\ hlz = Unused /\ ce = Unused /\ pipe = Unused /\ hist = NoHist

\* tokenizer.learn(tokens, input_vocab), once
BPEVocabLearn ==
    /\ kind = "bpevocab" /\ lrn.pc = "idle"
    /\ \E tokens \in BPEVocabSeqs, input_vocab \in {nullopt, Some(BPEVocabSymbols)} :
          /\ bpe' \in BPE_learn(bpe, tokens, input_vocab)
          /\ lrn' = [NoLearn EXCEPT !.pc = "learned", !.tokens = tokens]
    /\ UNCHANGED <<kind, trie, call, lz, hlz, ce, pipe, hist>>

\* tokenizer.encode(tokens) of the training sequence
BPEVocabEncode ==
    /\ kind = "bpevocab" /\ lrn.pc = "learned"
    /\ call' = Call("encode", lrn.tokens, BPE_encode(bpe, lrn.tokens), "ok")
    /\ UNCHANGED <<kind, trie, bpe, lrn, lz, hlz, ce, pipe, hist>>

NextBPEVocab == BPEVocabLearn \/ BPEVocabEncode

SpecBPEVocab == InitBPEVocab /\ [][NextBPEVocab]_vars

-----------------------------------------------------------------------------
(* An LZCoder of unbounded size                                             *)

\* the default output_vocab_size: no bound
DefaultOutputVocabSize == -1

InitLZUnbounded ==
    /\ kind = "lz"
    /\ \E v \in SUBSET LZSymbols : lz = LZCoder_new(DefaultOutputVocabSize, v)
    /\ hist = NoHist
    /\ call = NoCall
    /\ trie = Unused /\ bpe = Unused /\ lrn = Unused /\ hlz = Unused /\ ce = Unused /\ pipe = Unused

SpecLZUnbounded == InitLZUnbounded /\ [][NextLZ]_vars

-----------------------------------------------------------------------------
(* Claims about the BPE tokenizer                                           *)

\* C1 (as claimed): after learn(seq) with input_vocab defaulted, decoding the
\* encoding of the training sequence gives the training sequence back:
\* decode(encode(seq)) = seq.
C1_BPERoundTrip ==
    (kind = "bpe" /\ lrn.pc = "learned" /\ call.op = "decode") => call.out = lrn.tokens

\* C5 (as claimed): after learn(seq) every id of encode(seq) lies in
\* output_vocab = {1..|merges|}, and every id of output_vocab decodes to
\* symbols of input_vocab.
C5_BPEVocabContainment ==
    (kind = "bpe" /\ lrn.pc = "learned") =>
        /\ bpe.output_vocab = 1..Len(bpe.merges)
        /\ SetOfSeq(BPE_encode(bpe, lrn.tokens)) \subseteq bpe.output_vocab
        /\ \A id \in bpe.output_vocab : SetOfSeq(BPE_decode(bpe, <<id>>)) \subseteq bpe.input_vocab

\* C10 (as claimed): in every merge step of learn the symbol substituted into
\* the working sequence is the 1-indexed position of the merge in merges (the
\* key of its token_values entry and the id encode emits for it), and so
\* encode(training tokens) is learn's final working sequence.
C10_BPEMergeIds ==
    (kind = "bpe") =>
        /\ \A i \in 1..Len(lrn.steps) : lrn.steps[i].substituted = lrn.steps[i].merge_token_id
        /\ lrn.pc = "learned" => BPE_encode(bpe, lrn.tokens) = lrn.working_tokens

(* Claims about the LZ coders                                               *)

Ok(seq) == [out |-> seq, status |-> "ok"]

\* the ids a coder has assigned: the keys of encoded_vocab other than the
\* empty token
assigned(c) == (DOMAIN c.encoded_vocab) \ {EMPTY_TOKEN}

\* C2: on a freshly constructed bounded LZCoder and a sequence over its
\* input_vocab, when encode(seq, learn=true) returns ids then decode(ids) =
\* seq, and a following encode(seq, learn=false) returns ids' with
\* decode(ids') = seq; in scenario 2 ([1,2,1,2,3], N = 8, V = {1,2,3}) ids'
\* has at most 3 tokens.
C2_LZRoundTrip ==
    (/\ kind = "lz" /\ call.op = "encode" /\ call.fresh /\ call.learn /\ call.status = "ok"
     /\ SetOfSeq(call.tokens) \subseteq lz.input_vocab)
    => /\ LZ_decode(lz, call.out) = Ok(call.tokens)
       /\ \A r \in {LZ_encode(lz, call.tokens, FALSE)} :
             /\ r.status = "ok"
             /\ LZ_decode(r.coder, r.out) = Ok(call.tokens)
             /\ (lz.vocab_size = LZScenario.output_vocab_size + 1 /\ call.tokens = LZScenario.tokens)
                   => Len(r.out) <= 3

\* scenario 2 has been encoded with learning on a fresh coder: two phrases
\* were learned and the sequence re-encodes to them
C2_Witness ==
    /\ kind = "lz" /\ call.op = "encode" /\ call.fresh /\ call.learn /\ call.status = "ok"
    /\ lz.vocab_size = LZScenario.output_vocab_size + 1
    /\ call.tokens = LZScenario.tokens
    /\ call.out = <<3, 4>>
    /\ LZ_encode(lz, call.tokens, FALSE).out = <<3, 4>>

\* C3: on a HierarchicalLZCoder that has only seen encode calls, when
\* encode(seq, learn=true) returns ids, decode(ids) on that instance returns
\* seq and fails with neither UnknownContext nor UnknownToken.
C3_HLZRoundTrip ==
    (/\ kind = "hlz" /\ call.op = "encode" /\ call.learn /\ call.status = "ok"
     /\ ~hist.updated)
    => HLZ_decode(hlz, call.out) = Ok(call.tokens)

\* a learning encode that emitted two ids, the second in the context of the
\* first, on an instance where earlier calls had opened another context
C3_Witness ==
    /\ kind = "hlz" /\ call.op = "encode" /\ call.learn /\ call.status = "ok"
    /\ ~hist.updated /\ ~call.fresh
    /\ Len(call.out) = 2
    /\ Cardinality(DOMAIN hlz.coders) >= 3
    /\ HLZ_decode(hlz, call.out) = Ok(call.tokens)

\* C6 (as claimed): every id in the output of LZCoder.encode or
\* HierarchicalLZCoder.encode lies in {0..N-1}; the empty token -1 is never
\* emitted.
C6_OutputRange ==
    /\ (kind = "lz" /\ call.op = "encode" /\ call.status = "ok")
          => SetOfSeq(call.out) \subseteq 0..(lz.vocab_size - 2)
    /\ (kind = "hlz" /\ call.op = "encode" /\ call.status = "ok")
          => SetOfSeq(call.out) \subseteq 0..(hlz.vocab_size - 1)

\* C8 (as claimed): in every reachable state of an LZCoder, each id i of
\* encoded_vocab has trie.get(encoded_vocab[i]) = i.
C8_LZBijection ==
    kind = "lz" =>
        \A i \in DOMAIN lz.encoded_vocab :
            Trie_get(lz.token_map, lz.encoded_vocab[i]) = [found |-> TRUE, value |-> i]

\* the partition of a coder's ids
id_partition(c) ==
    /\ c.unused_tokens \cap assigned(c) = {}
    /\ c.unused_tokens \cup assigned(c) = 0..(c.vocab_size - 2)

\* C9: in every reachable state of a bounded LZCoder of size N, and of every
\* coder inside a HierarchicalLZCoder, unused_tokens and the assigned ids are
\* disjoint and their union is {0..N-1}.
C9_IdPartition ==
    /\ kind = "lz" => id_partition(lz)
    /\ kind = "hlz" => \A ctx \in DOMAIN hlz.coders : id_partition(hlz.coders[ctx])

\* a hierarchical coder after update_vocab and learning, with a context coder
\* that has assigned one id and has one left
C9_Witness ==
    /\ kind = "hlz" /\ hist.updated
    /\ \E ctx \in (DOMAIN hlz.coders) \ {EMPTY_TOKEN} :
          /\ assigned(hlz.coders[ctx]) # {}
          /\ hlz.coders[ctx].unused_tokens # {}


-----------------------------------------------------------------------------
(* Claims about the contextual encoder                                      *)

\* C4: after learn(seq) on a sequence of positive integers, every sequence x
\* over the learned vocabulary (the symbols of seq), x = seq included, has
\* decode(encode(x)) = x.
C4_CERoundTrip ==
    (/\ kind = "ce" /\ lrn.pc = "learned" /\ call.op = "encode"
     /\ SetOfSeq(call.tokens) \subseteq SetOfSeq(lrn.tokens))
    => /\ call.status = "ok"
       /\ CE_decode(ce, call.out) = Ok(call.tokens)

\* scenario 4 was learned and its training sequence encoded to fewer ids
\* than it has symbols
C4_Witness ==
    /\ kind = "ce" /\ lrn.pc = "learned" /\ call.op = "encode" /\ call.status = "ok"
    /\ lrn.tokens = CEScenario
    /\ call.tokens = CEScenario
    /\ Len(call.out) < Len(call.tokens)
    /\ CE_decode(ce, call.out) = Ok(call.tokens)


-----------------------------------------------------------------------------
(* Claims about the pipeline                                                *)

\* C7 (as claimed): during and after ComposedTokenizer.learn, every token of
\* the sequence handed to a stage k >= 1 is a member of the output_vocab of
\* stage k-1, the input_vocab stage k is trained with, and learn completes
\* for every stage.
C7_PipelineVocab ==
    kind = "pipe" =>
        /\ pipe.pc # "diverged"
        /\ \A k \in 1..Len(pipe.handed) :
              SetOfSeq(pipe.handed[k].tokens) \subseteq pipe.handed[k].input_vocab


-----------------------------------------------------------------------------
(* Claims about the bounds of BPE::learn                                    *)

\* C11 (as claimed): after any learn call, |merges|, seeding entries
\* included, is at most max_output_vocab.
C11_BPESizeBound ==
    (kind = "bpe" /\ lrn.pc = "learned") => Len(bpe.merges) <= value(bpe.max_output_vocab)

\* C12 (as claimed): for a BPE constructed with only max_merges = m, every
\* learn call, a later one on another vocabulary included, records at most m
\* merges besides the seeding ones (its bound is m + |input_vocab| of that
\* call).
C12_BPEMaxMerges ==
    (kind = "relearn" /\ lrn.pc = "learned")
    => /\ value(bpe.max_output_vocab) = value(bpe.max_merges) + Cardinality(bpe.input_vocab)
       /\ Len(bpe.merges) - Cardinality(bpe.input_vocab) <= value(bpe.max_merges)


-----------------------------------------------------------------------------
(* Claims about the failures of the LZ coder                                *)

\* the keys of the dictionary other than the empty one
dictionary_keys(c) == {key \in DOMAIN c.token_map : c.token_map[key].is_end} \ {<<>>}

\* no phrase has been learned: the dictionary holds the input symbols only
only_input_symbols(c) == dictionary_keys(c) = {<<ch>> : ch \in c.input_vocab}

\* C13 (as claimed): in any reachable state of an LZCoder, encode(seq,
\* learn=false) on a sequence with a symbol outside input_vocab fails with
\* LearningDisabled.
C13_LearningDisabledAnyState ==
    (/\ kind = "lz" /\ call.op = "encode" /\ ~call.learn
     /\ ~(SetOfSeq(call.tokens) \subseteq lz.input_vocab))
    => call.status = "LearningDisabled"

\* C13 (amended): encode(seq, learn=false) leaves the coder unchanged and
\* fails with nothing but LearningDisabled; on a coder whose dictionary holds
\* the input symbols only it fails with LearningDisabled on every sequence
\* with a symbol outside input_vocab.
C13_LearningDisabled ==
    [][(kind = "lz" /\ call.op = "none" /\ call'.op = "encode" /\ ~call'.learn)
       => /\ lz' = lz
          /\ call'.status \in {"ok", "LearningDisabled"}
          /\ (only_input_symbols(lz) /\ ~(SetOfSeq(call'.tokens) \subseteq lz.input_vocab))
                => call'.status = "LearningDisabled"]_vars

\* a coder that update_vocab has extended refuses, without learning, a
\* sequence whose second symbol it does not know
C13_Witness ==
    /\ kind = "lz" /\ call.op = "encode" /\ ~call.learn /\ call.status = "LearningDisabled"
    /\ hist.updated /\ only_input_symbols(lz)
    /\ Len(call.tokens) >= 2
    /\ call.tokens[1] \in lz.input_vocab
    /\ call.tokens[2] \notin lz.input_vocab


\* C14: on a bounded LZCoder, update_vocab(seq) registers every symbol of seq
\* that is not in input_vocab as a one-symbol key under an id that was unused
\* and returns normally whenever there is an unused id for each such symbol,
\* also when the call uses up the last unused ids; it fails with VocabFull
\* only when the unused ids do not suffice.
C14_UpdateVocab ==
    [][(kind = "lz" /\ call.op = "none" /\ call'.op = "update_vocab" /\ lz.vocab_size > 0)
       => LET new == SetOfSeq(call'.tokens) \ lz.input_vocab
          IN  /\ Cardinality(new) <= Cardinality(lz.unused_tokens)
                    => /\ call'.status = "ok"
                       /\ lz'.input_vocab = lz.input_vocab \cup new
                       /\ \A ch \in new :
                             /\ Trie_contains(lz'.token_map, <<ch>>)
                             /\ Trie_get(lz'.token_map, <<ch>>).value \in lz.unused_tokens
              /\ call'.status = "VocabFull"
                    => Cardinality(new) > Cardinality(lz.unused_tokens)]_vars


-----------------------------------------------------------------------------
(* Claims about the vote of the hierarchical coder                          *)

\* the coders encode_one_token works with in context ctx: those of h, and a
\* new empty one for ctx when h has none
coders_with(h, ctx) ==
    IF ctx \in DOMAIN h.coders THEN h.coders ELSE Put(h.coders, ctx, LZCoder_new(h.vocab_size, {}))

\* the coders of other contexts that propose id for to_encode and know it
voters_for(coders, ctx, to_encode, id) ==
    {o \in (DOMAIN coders) \ {ctx} :
        /\ propose_next_token(coders[o], to_encode, TRUE).token = id
        /\ id \in DOMAIN coders[o].encoded_vocab}

tally(coders, ctx, to_encode, id) == Cardinality(voters_for(coders, ctx, to_encode, id))

\* a step of HLZEncodeOneToken that learns and changes the active coder
adds_token ==
    /\ kind = "hlz" /\ call.op = "none"
    /\ call'.op = "encode_one_token" /\ call'.learn /\ call'.status = "ok"
    /\ call'.tokens # <<>>
    /\ hlz'.coders[call'.ctx] # coders_with(hlz, call'.ctx)[call'.ctx]

\* C15: when encode_one_token adds a token under learn=true, the committed id
\* was unused in the active coder and no unused id of the active coder has a
\* higher tally; when no unused id has a tally above that of the active
\* coder's smallest unused id, that smallest unused id is committed.
C15_VoteRule ==
    [][adds_token
       => LET coders == coders_with(hlz, call'.ctx)
              unused == coders[call'.ctx].unused_tokens
              committed == call'.out[1]
              T(id) == tally(coders, call'.ctx, call'.tokens, id)
          IN  /\ committed \in unused
              /\ \A id \in unused : T(id) <= T(committed)
              /\ (\A id \in unused : T(id) <= T(SetMin(unused))) => committed = SetMin(unused)]_vars

\* a vote won against the native proposal: the id committed for the prefix is
\* known to another coder while a smaller id of the active coder stays unused
C15_Witness ==
    /\ kind = "hlz" /\ call.op = "encode_one_token" /\ call.learn /\ call.status = "ok"
    /\ call.ctx \in DOMAIN hlz.coders
    /\ LET active == hlz.coders[call.ctx]
           committed == call.out[1]
       IN  /\ committed \in DOMAIN active.encoded_vocab
           /\ active.encoded_vocab[committed] = call.prefix
           /\ \E id \in active.unused_tokens : id < committed
           /\ \E o \in (DOMAIN hlz.coders) \ {call.ctx} : committed \in DOMAIN hlz.coders[o].encoded_vocab


\* C16: whenever encode_one_token commits an id that received at least one
\* vote, the substring the active coder registers under it is the substring
\* the id denotes in every coder that voted for it.
C16_VoteCoherence ==
    [][adds_token
       => LET coders == coders_with(hlz, call'.ctx)
              committed == call'.out[1]
          IN  \A o \in voters_for(coders, call'.ctx, call'.tokens, committed) :
                 coders[o].encoded_vocab[committed] = call'.prefix]_vars


-----------------------------------------------------------------------------
(* Claims about the contextual encoder                                      *)

\* C17: after learn, ContextualEncoder.encode terminates on every finite
\* input with i = |tokens|: a step that emits the zero token without
\* consuming input is followed by one that consumes a symbol.
C17_EncodeProgress ==
    (kind = "ce" /\ lrn.pc = "learned" /\ call.op = "encode") => call.status = "ok"


-----------------------------------------------------------------------------
(* Claims about the trie                                                    *)

\* the inserted keys
Trie_keys(t) == {p \in DOMAIN t : t[p].is_end}

\* C19: for any inserted keys and any query, longest_prefix returns the key
\* of the deepest terminal node visited while walking the query, with that
\* key's value, and ([], no-token sentinel) when no terminal is visited.
C19_LongestPrefix ==
    (kind = "trie" /\ call.op = "longest_prefix")
    => LET visited == {key \in Trie_keys(trie) : is_prefix(call.tokens, key)}
           deepest == CHOOSE key \in visited : \A other \in visited : Len(other) <= Len(key)
       IN  IF visited = {}
           THEN call.prefix = <<>> /\ call.out = <<EMPTY_TOKEN>>
           ELSE call.prefix = deepest /\ call.out = <<trie[deepest].value>>


-----------------------------------------------------------------------------
(* Claims about get_stats                                                   *)

\* the number of positions of s where the pair p starts
occurrences(s, p) == Cardinality({i \in 1..(Len(s) - 1) : <<s[i], s[i + 1]>> = p})

\* C20: get_stats(s) maps every adjacent pair of s to its number of
\* occurrences and no other pair; for |s| < 2, the empty sequence included,
\* it returns the empty mapping without reading outside s.
C20_PairStats ==
    (kind = "stats" /\ call.op = "get_stats")
    => /\ call.status = "ok"
       /\ DOMAIN call.out = {<<call.tokens[i], call.tokens[i + 1]>> : i \in 1..(Len(call.tokens) - 1)}
       /\ \A p \in DOMAIN call.out : call.out[p] = occurrences(call.tokens, p)
       /\ Len(call.tokens) < 2 => call.out = EmptyMap


-----------------------------------------------------------------------------
(* Claims about merge_pairs                                                 *)

\* the (1-based) position in the input that the k-th output symbol starts at,
\* when every new token stands for two input symbols
RECURSIVE input_position(_, _, _)
input_position(out, new, k) ==
    IF k = 1 THEN 1
    ELSE input_position(out, new, k - 1) + (IF out[k - 1] = new THEN 2 ELSE 1)

\* the input positions merge_pairs replaced, read off its output
replaced_at(out, new) == {input_position(out, new, k) : k \in {j \in 1..Len(out) : out[j] = new}}

\* the output with every new token written out as the pair again
RECURSIVE unmerged(_, _, _)
unmerged(out, pair, new) ==
    IF out = <<>> THEN <<>>
    ELSE (IF Head(out) = new THEN pair ELSE <<Head(out)>>) \o unmerged(Tail(out), pair, new)

\* C21: merge_pairs(s, (a,b), new) replaces occurrences of the pair by new,
\* left to right: every replaced position holds the pair, a position that
\* holds the pair and is not replaced overlaps a replacement one position
\* earlier, all other symbols are copied, and the output is shorter than s by
\* the number of replacements.
C21_MergePairs ==
    (kind = "merge" /\ call.op = "merge_pairs")
    => LET s == call.tokens
           pair == call.prefix
           new == call.ctx
           R == replaced_at(call.out, new)
           holds_pair(i) == i < Len(s) /\ s[i] = pair[1] /\ s[i + 1] = pair[2]
       IN  /\ unmerged(call.out, pair, new) = s
           /\ \A i \in 1..Len(s) : holds_pair(i) => (i \in R \/ (i - 1) \in R)
           /\ Len(call.out) = Len(s) - Cardinality(R)

\* merging (x,x) in [x,x,x] has given [new, x]
C21_Witness ==
    /\ kind = "merge" /\ call.op = "merge_pairs"
    /\ call.tokens = <<1, 1, 1>> /\ call.prefix = <<1, 1>>
    /\ call.out = <<call.ctx, 1>>


-----------------------------------------------------------------------------
(* Claims about the calls of a pipeline                                     *)

\* a result of the pipeline equals the result res of its last stage reached
same_result(c, res) == c.out = res.out /\ c.status = res.status

\* C22: the encode of a pipeline over stages [A, B] is B.encode of A.encode,
\* its decode is A.decode of B.decode (a stage that fails ends the call with
\* its failure), a pipeline of one stage gives that stage's results, and a
\* pipeline with no stages gives every sequence back.
C22_PipelineLaw ==
    [][(kind = "pipe" /\ call'.op \in {"encode", "decode"} /\ call' # call)
       => LET T == pipe.tokenizers
              x == call'.tokens
          IN  /\ Len(T) = 0 => call'.out = x /\ call'.status = "ok"
              /\ (Len(T) = 1 /\ call'.op = "encode")
                    => \E a \in Stage_encode(T[1], x) : same_result(call', a)
              /\ (Len(T) = 1 /\ call'.op = "decode")
                    => same_result(call', Stage_decode(T[1], x))
              /\ (Len(T) = 2 /\ call'.op = "encode")
                    => \E a \in Stage_encode(T[1], x) :
                          IF a.status # "ok" THEN same_result(call', a)
                          ELSE \E b \in Stage_encode(T[2], a.out) : same_result(call', b)
              /\ (Len(T) = 2 /\ call'.op = "decode")
                    => LET b == Stage_decode(T[2], x)
                       IN  IF b.status # "ok" THEN same_result(call', b)
                           ELSE same_result(call', Stage_decode(T[1], b.out))]_vars

\* a learned pipeline of two stages of different types has decoded the
\* encoding of its training sequence to something else than the ids
C22_Witness ==
    /\ kind = "pipe" /\ pipe.pc = "learned" /\ call.op = "decode" /\ call.status = "ok"
    /\ Len(pipe.tokenizers) = 2
    /\ pipe.tokenizers[1].type # pipe.tokenizers[2].type
    /\ call.out = pipe.tokens
    /\ call.out # call.tokens


-----------------------------------------------------------------------------
(* Claims about the merges of a BPE                                         *)

\* the (1-based) entries of merges that BPE::encode skips
skipped(b) == {i \in 1..Len(b.merges) : b.merges[i][1] = 0}

\* C23: the entries of merges that encode skips are exactly the seeding
\* entries, the first |input_vocab| ones: every merge learned from the data
\* is applied by encode and no seeding entry is.
C23_SeedingMerges ==
    (kind = "bpevocab" /\ lrn.pc = "learned")
    => skipped(bpe) = 1..Cardinality(bpe.input_vocab)


-----------------------------------------------------------------------------
(* Claims about the matches of the contextual encoder                       *)

\* the entries of context_map[ctx] whose value is a non-empty prefix of the
\* input from (0-based) position i on
candidates(cm, tokens, ctx, i) ==
    {t \in DOMAIN cm[ctx] :
        /\ Len(cm[ctx][t]) > 0
        /\ is_prefix(SubSeq(tokens, i + 1, Len(tokens)), cm[ctx][t])}

\* from its k-th id on, out is what encode emits in context ctx at position i
\* when every step takes the longest candidate, the smaller id among equally
\* long ones, and 0 when there is none
RECURSIVE longest_matches(_, _, _, _, _, _)
longest_matches(cm, tokens, out, k, ctx, i) ==
    IF k > Len(out) THEN i = Len(tokens)
    ELSE LET c == candidates(cm, tokens, ctx, i)
             t == out[k]
         IN  IF c = {} THEN t = 0 /\ longest_matches(cm, tokens, out, k + 1, 0, i)
             ELSE /\ t \in c
                  /\ \A u \in c : \/ Len(cm[ctx][u]) < Len(cm[ctx][t])
                                  \/ Len(cm[ctx][u]) = Len(cm[ctx][t]) /\ t <= u
                  /\ longest_matches(cm, tokens, out, k + 1, t, i + Len(cm[ctx][t]))

\* some step of the encoding out had more than one candidate
RECURSIVE had_choice(_, _, _, _, _, _)
had_choice(cm, tokens, out, k, ctx, i) ==
    IF k > Len(out) THEN FALSE
    ELSE LET c == candidates(cm, tokens, ctx, i)
         IN  \/ Cardinality(c) >= 2
             \/ had_choice(cm, tokens, out, k + 1, out[k], i + (IF c = {} THEN 0 ELSE Len(cm[ctx][out[k]])))

\* C24: every id that ContextualEncoder.encode emits is the entry of
\* context_map[ctx] whose value is the longest prefix of the remaining input,
\* the smaller id among equally long candidates, and the result for a model
\* and an input is one and the same whatever the map's iteration order.
C24_LongestMatch ==
    /\ (kind = "ce" /\ lrn.pc = "learned" /\ call.op = "encode" /\ call.status = "ok")
          => longest_matches(ce.context_map, call.tokens, call.out, 1, 0, 0)
    /\ (kind = "ce" /\ lrn.pc = "learned" /\ call.op = "none")
          => \A tokens \in CEInputs : Cardinality(CE_encode(ce, tokens)) = 1

\* an encode where a step had a shorter and a longer candidate
C24_Witness ==
    /\ kind = "ce" /\ lrn.pc = "learned" /\ call.op = "encode" /\ call.status = "ok"
    /\ had_choice(ce.context_map, call.tokens, call.out, 1, 0, 0)
    /\ Len(call.out) < Len(call.tokens)


-----------------------------------------------------------------------------
(* Claims about the unbounded LZ coder                                      *)

\* C25: on an LZCoder of unbounded size, encode(seq, learn=true) returns and
\* decode gives seq back from its output.
C25_UnboundedRoundTrip ==
    (kind = "lz" /\ lz.vocab_size < 0 /\ call.op = "encode" /\ call.learn)
    => /\ call.status = "ok"
       /\ LZ_decode(lz, call.out) = Ok(call.tokens)


-----------------------------------------------------------------------------
(* Claims about the hierarchical coder's encode                             *)

\* C26: in every reachable state and for either learn flag, a call of
\* HierarchicalLZCoder.encode returns an output or fails; it never repeats
\* for ever a step that consumes no input.
C26_HLZEncodeTerminates ==
    (kind = "hlz" /\ call.op = "encode")
    => call.status \in {"ok", "LearningDisabled", "UnknownContext", "VocabFull", "DictionaryFull"}


-----------------------------------------------------------------------------
(* Claims about the LZ coder after any history                              *)

\* C27: in every state of a bounded LZCoder reached by update_vocab and
\* encode calls, failed ones included, an encode that returns ids returns
\* ids that decode to its input.
C27_LZRoundTripAnyHistory ==
    (kind = "lz" /\ lz.vocab_size > 0 /\ call.op = "encode" /\ call.status = "ok")
    => LZ_decode(lz, call.out) = Ok(call.tokens)


-----------------------------------------------------------------------------
(* Claims about a BPE on a contiguous vocabulary                            *)

\* the training sequence's symbols are exactly 1..n
contiguous(tokens) == SetOfSeq(tokens) = 1..Cardinality(SetOfSeq(tokens))

\* C28: when learn returns on a sequence whose symbols are exactly 1..n, every merge
\* step wrote into the working sequence the id under which token_values
\* stores the merge, the keys of token_values are output_vocab = 1..|merges|,
\* every value is non-empty, and decode(encode(x)) = x for every x over 1..n.
C28_BPEContiguous ==
    (kind = "bpe" /\ lrn.pc = "learned" /\ call.op = "none" /\ contiguous(lrn.tokens))
    => /\ \A k \in 1..Len(lrn.steps) : lrn.steps[k].substituted = lrn.steps[k].merge_token_id
       /\ DOMAIN bpe.token_values = bpe.output_vocab
       /\ bpe.output_vocab = 1..Len(bpe.merges)
       /\ \A t \in DOMAIN bpe.token_values : bpe.token_values[t] # <<>>
       /\ \A x \in SeqsUpTo(SetOfSeq(lrn.tokens), MaxBPEInput) \cup {lrn.tokens} :
             BPE_decode(bpe, BPE_encode(bpe, x)) = x

\* learn has returned with two merges learned on the symbols 1..n, n >= 2,
\* the second merge built on the first
C28_Witness ==
    /\ kind = "bpe" /\ lrn.pc = "learned" /\ call.op = "none" /\ contiguous(lrn.tokens)
    /\ Len(lrn.steps) >= 2
    /\ Cardinality(SetOfSeq(lrn.tokens)) >= 2
    /\ Len(bpe.token_values[Len(bpe.merges)]) >= 3
    /\ Len(BPE_encode(bpe, lrn.tokens)) < Len(lrn.tokens)


-----------------------------------------------------------------------------
(* Claims about the tries of the coders                                     *)

\* every prefix of a key of the trie, down to the empty key, is a key
prefix_closed(t) == \A key \in Trie_keys(t) : Prefixes(key) \subseteq Trie_keys(t)

\* longest_prefix returns, for every sequence in seqs, a key with the value
\* the trie holds for that key
returns_keys(t, seqs) ==
    \A sequence \in seqs :
        LET r == Trie_longest_prefix(t, sequence)
        IN  /\ Trie_contains(t, r.prefix)
            /\ Trie_get(t, r.prefix).value = r.token

\* C29: in every reachable state of an LZCoder and of every coder inside a
\* HierarchicalLZCoder the trie's key set is prefix-closed, and longest_prefix
\* returns a key together with that key's own value.
C29_PrefixClosure ==
    /\ (kind = "lz" /\ call.op = "none")
          => prefix_closed(lz.token_map) /\ returns_keys(lz.token_map, LZInputs(lz))
    /\ (kind = "hlz" /\ call.op = "none")
          => \A ctx \in DOMAIN hlz.coders :
                /\ prefix_closed(hlz.coders[ctx].token_map)
                /\ returns_keys(hlz.coders[ctx].token_map, HLZSeqs)

\* a coder of a context other than the empty one holds a key of two symbols
C29_Witness ==
    /\ kind = "hlz" /\ call.op = "none"
    /\ \E ctx \in (DOMAIN hlz.coders) \ {EMPTY_TOKEN} :
          \E key \in Trie_keys(hlz.coders[ctx].token_map) : Len(key) >= 2


-----------------------------------------------------------------------------
(* Claims about the stability of ids                                        *)

\* every id of the coder c keeps its sequence in the coder d
keeps_ids(c, d) ==
    \A id \in DOMAIN c.encoded_vocab :
        /\ id \in DOMAIN d.encoded_vocab
        /\ d.encoded_vocab[id] = c.encoded_vocab[id]

\* C30: once an id is assigned in the encoded_vocab of an LZCoder, or of a
\* coder of a HierarchicalLZCoder, no later step changes the sequence it
\* decodes to.
C30_IdStability ==
    [][/\ kind = "lz" => keeps_ids(lz, lz')
       /\ kind = "hlz" => \A ctx \in DOMAIN hlz.coders :
                             /\ ctx \in DOMAIN hlz'.coders
                             /\ keeps_ids(hlz.coders[ctx], hlz'.coders[ctx])]_vars

\* update_vocab has registered a symbol under an id above that of a phrase
\* an earlier encode had learned
C30_Witness ==
    /\ kind = "lz" /\ call.op = "update_vocab" /\ call.status = "ok" /\ ~call.fresh
    /\ \E id \in assigned(lz), earlier \in assigned(lz) :
          /\ earlier < id
          /\ Len(lz.encoded_vocab[earlier]) >= 2
          /\ Len(lz.encoded_vocab[id]) = 1
          /\ lz.encoded_vocab[id][1] \in SetOfSeq(call.tokens)

=============================================================================
